---- MODULE Spec2Model ----
(***************************************************************************)
(* A model of the careers page's animated hero:                            *)
(*   - the scroll-stage controller ScrollHero, in its two variants         *)
(*     (state-driven re-render, and direct-write frame loop), and          *)
(*   - the WebGL shader renderers PlasmaBackground, NeuralOceanBackground, *)
(*     PlasmaOcean and PlasmaOceanNeural, with their canvas, pointer and   *)
(*     click handlers, and the click ripple of the fragment shader,        *)
(* and of the page around it:                                              *)
(*   - the hover particles of JobCard and ComparisonCard,                  *)
(*   - the HeartButton animation, with React's update queue, renders and   *)
(*     effect runs as separate steps, and                                  *)
(*   - Home: role loading, the filters, and the role modal with the        *)
(*     effect of JobModal.                                                 *)
(*                                                                         *)
(* JavaScript numbers are modelled as exact rationals <<n, d>> with d > 0  *)
(* in lowest terms; IEEE-754 rounding of the last bit is not modelled.     *)
(* Window heights are positive, so no division by zero occurs.             *)
(***************************************************************************)
EXTENDS Integers, Sequences, FiniteSets, TLC

\* ------------------------------------------------------------------ bounds

\* Scroll offsets are 0, 100, ..., 100 * MaxScrollTicks pixels.
MaxScrollTicks == 26
\* Window heights are 1000 and 200, 400, ..., 200 * MaxHeightTicks pixels.
MaxHeightTicks == 2
\* Window widths are 500, 1000, ..., 500 * MaxWidthTicks pixels.
MaxWidthTicks == 2

\* A renderer runs at most MaxFrames frame callbacks and MaxInits initialisations.
MaxFrames == 3
MaxInits == 3

\* The clock runs for MaxClock ticks of half a second.
MaxClock == 1

ScrollOffsets == {100 * k : k \in 0..MaxScrollTicks}
WindowHeights == {1000} \cup {200 * k : k \in 1..MaxHeightTicks}
WindowWidths == {500 * k : k \in 1..MaxWidthTicks}

\* The pixel ratios a window reports, and the intensities a parent passes.
DevicePixelRatios == {<<1, 1>>, <<3, 1>>}
Intensities == {<<0, 1>>, <<6, 5>>}

\* The size the full-width canvas is laid out at in a window w wide.
CanvasLayout(w) == IF w < 768 THEN <<301, 151>> ELSE <<401, 201>>

\* ------------------------------------------------- JavaScript number helpers

RECURSIVE GCD(_, _)
GCD(a, b) == IF b = 0 THEN a ELSE GCD(b, a % b)

Abs(x) == IF x < 0 THEN -x ELSE x

\* The rational n/d (d # 0) in lowest terms with a positive denominator.
Rat(n, d) ==
    LET g == GCD(Abs(n), Abs(d))
        s == IF d < 0 THEN -1 ELSE 1
    IN  <<(s * n) \div g, (s * d) \div g>>

Num(n) == <<n, 1>>
RAdd(a, b) == Rat(a[1] * b[2] + b[1] * a[2], a[2] * b[2])
RSub(a, b) == Rat(a[1] * b[2] - b[1] * a[2], a[2] * b[2])
RMul(a, b) == Rat(a[1] * b[1], a[2] * b[2])
RDiv(a, b) == Rat(a[1] * b[2], a[2] * b[1])
RLt(a, b) == a[1] * b[2] < b[1] * a[2]
RLe(a, b) == a[1] * b[2] <= b[1] * a[2]
RGt(a, b) == RLt(b, a)
MathMin(a, b) == IF RLe(a, b) THEN a ELSE b
MathMax(a, b) == IF RLe(a, b) THEN b ELSE a

\* Math.round: the nearest integer, ties towards +Infinity.
MathRound(a) == (2 * a[1] + a[2]) \div (2 * a[2])

\* Number.prototype.toFixed(3) followed by the style parser: the nearest
\* multiple of 1/1000 (ties up, for the non-negative values used here).
ToFixed3(a) == Rat((2000 * a[1] + a[2]) \div (2 * a[2]), 1000)
\* toFixed(1), as used for the rotation angle.
ToFixed1(a) == Rat((20 * a[1] + a[2]) \div (2 * a[2]), 10)

\* --------------------------------------------------------------- variables

VARIABLES
    \* the browser window
    innerHeight,    \* window.innerHeight
    innerWidth,     \* window.innerWidth
    winScrollY,     \* window.scrollY
    \* ScrollHero
    shVariant,      \* "state" (re-render per scroll event) or "direct" (frame loop)
    shMounted,      \* the mount effect has run and its cleanup has not
    scrollY,        \* useState scrollY (state-driven variant)
    windowHeight,   \* useState windowHeight (both variants)
    currentHeight,  \* the effect's closure variable (direct-write variant)
    lastWidth,      \* lastWidth.current (direct-write variant)
    shListeners,    \* the window listeners ScrollHero has registered
    shRafPending,   \* a frame request of the loop is pending (rafRef)
    view,           \* the values of the last render / loop run, and the styles written
    \* the platform, as a shader renderer sees it
    prefersReducedMotion,   \* matchMedia("(prefers-reduced-motion: reduce)").matches
    ctxAvailable,           \* canvas.getContext("webgl") returns a context
    vsCompiles,             \* COMPILE_STATUS of the vertex shader
    fsCompiles,             \* COMPILE_STATUS of the fragment shader
    programLinks,           \* LINK_STATUS of the program
    tabVisible,             \* document.visibilityState === "visible"
    \* one shader renderer
    rVariant,       \* which component it is
    propIsVisible,  \* the isVisible prop its parent passes
    rnd,            \* its refs, state, registered listeners, GPU objects and call counts
    propsSupplied,  \* the parent passes isVisible and intensity (else the defaults apply)
    propIntensity,  \* the intensity prop the component sees
    \* the renderer's canvas on the screen, and the clock
    devicePixelRatio,   \* window.devicePixelRatio
    clientSize,         \* <<canvas.clientWidth, canvas.clientHeight>>
    now,                \* Date.now() - startTimeRef.current, in ticks of half a second
    \* the fragment shader of PlasmaOceanNeural, on one fragment
    fragment,       \* its inputs: uv, the click position and time, the current time
    rippleOut,      \* the value rippleEffect returned for it
    \* one hover card (JobCard or ComparisonCard) on a 60 Hz display
    cardKind,       \* which component it is
    isHovered,      \* useState isHovered
    particles,      \* useState sparkles / emojis, oldest first
    spawnTimer,     \* refresh intervals until the intervalRef timeout fires (-1: none)
    clearTimers,    \* pending setTimeout(() => setSparkles([]), 500) callbacks
    cardFrame,      \* the animation effect's frame request is pending
    cardHovers,     \* mouseenter events so far
    cardMoves,      \* mousemove events so far
    \* one HeartButton
    pointerOver,    \* the pointer is over the link (the last event was mouseenter)
    heartHovered,   \* useState isHovered, as last rendered
    heartPhase,     \* useState phase, as last rendered
    heartScale,     \* useState scale, as last rendered
    heartUpdates,   \* the state updates queued since the last render, oldest first
    heartLoop,      \* the phase the pending animate() closure captured ("none": no request)
    heartDeps,      \* the <<phase, isHovered>> the effects last ran with
    \* the page (Home) and its JobModal
    pageVersion,    \* which of the two versions of page.tsx
    homeMounted,    \* Home is mounted
    fetchPending,   \* loadRoles has not settled yet
    roles,          \* useState roles (role ids, in list order)
    loading,        \* useState loading
    selectedRole,   \* useState selectedRole (a role id or "null")
    isModalOpen,    \* useState isModalOpen
    filters,        \* useState searchQuery, brandFilter, teamFilter, typeFilter, locationFilter
    homeEvent,      \* the handler that ran last, with its argument
    keydownListeners,   \* keydown listeners of JobModal registered on document
    mousedownListeners, \* mousedown listeners of JobModal registered on document
    modalHandlers,  \* how many of each the last effect run registered, and its isOpen
    bodyOverflow    \* document.body.style.overflow

scrollVars == <<innerHeight, innerWidth, winScrollY, shVariant, shMounted, scrollY,
                windowHeight, currentHeight, lastWidth, shListeners, shRafPending, view>>

renderVars == <<prefersReducedMotion, ctxAvailable, vsCompiles, fsCompiles, programLinks,
                tabVisible, rVariant, propIsVisible, rnd>>

surfaceVars == <<propsSupplied, propIntensity, devicePixelRatio, clientSize, now>>

shaderVars == <<fragment, rippleOut>>

cardVars == <<cardKind, isHovered, particles, spawnTimer, clearTimers, cardFrame,
              cardHovers, cardMoves>>

\* The page's components outside the hero.
heartVars == <<pointerOver, heartHovered, heartPhase, heartScale, heartUpdates,
               heartLoop, heartDeps>>

homeVars == <<pageVersion, homeMounted, fetchPending, roles, loading, selectedRole,
              isModalOpen, filters, homeEvent, keydownListeners, mousedownListeners,
              modalHandlers, bodyOverflow>>

uiVars == <<cardVars, heartVars, homeVars>>

vars == <<scrollVars, renderVars, surfaceVars, shaderVars, uiVars>>

\* ------------------------------------------------ ScrollHero, state-driven

\* Stage 1 with the opacity left unclamped (the Math.max(0, ...) forgotten).
Stage1_NoClamp(sY, wH) ==
    LET stage1End == Num(wH)
        stage1Progress == MathMin(RDiv(Num(sY), stage1End), Num(1))
        stage1Opacity == RSub(Num(1), RMul(stage1Progress, Rat(3, 2)))
        stage1Scale == RAdd(Num(1), RMul(stage1Progress, Rat(3, 2)))
    IN  [progress |-> stage1Progress, opacity |-> stage1Opacity, scale |-> stage1Scale]

\* Stage 1 fading over the whole of its progress (the multiplier 1.5 dropped).
Stage1_FadeAtEnd(sY, wH) ==
    LET stage1End == Num(wH)
        stage1Progress == MathMin(RDiv(Num(sY), stage1End), Num(1))
        stage1Opacity == MathMax(Num(0), RSub(Num(1), stage1Progress))
        stage1Scale == RAdd(Num(1), RMul(stage1Progress, Rat(3, 2)))
    IN  [progress |-> stage1Progress, opacity |-> stage1Opacity, scale |-> stage1Scale]

\* Stage 1 of the state-driven variant (black screen with logos).
Stage1(sY, wH) ==
    LET stage1End == Num(wH)
        stage1Progress == MathMin(RDiv(Num(sY), stage1End), Num(1))
        stage1Opacity == MathMax(Num(0), RSub(Num(1), RMul(stage1Progress, Rat(3, 2))))
        stage1Scale == RAdd(Num(1), RMul(stage1Progress, Rat(3, 2)))
    IN  [progress |-> stage1Progress, opacity |-> stage1Opacity, scale |-> stage1Scale]

\* Stage 2 with the fade-out ramp measured from stage2Start instead of stage2Peak.
Stage2_WrongSpan(sY, wH) ==
    LET y == Num(sY)
        stage2Start == RMul(Num(wH), Rat(1, 2))
        stage2Peak == RMul(Num(wH), Rat(3, 2))
        stage2End == RMul(Num(wH), Rat(5, 2))
        stage2FadeIn ==
            MathMin(MathMax(RDiv(RSub(y, stage2Start), RSub(stage2Peak, stage2Start)), Num(0)), Num(1))
        stage2FadeOut ==
            MathMin(MathMax(RDiv(RSub(y, stage2Peak), RSub(stage2End, stage2Start)), Num(0)), Num(1))
        stage2Opacity ==
            IF RLt(y, stage2Peak) THEN stage2FadeIn ELSE MathMax(Num(0), RSub(Num(1), stage2FadeOut))
        stage2Scale ==
            RAdd(Num(1), RMul(MathMax(Num(0), RDiv(RSub(y, stage2Peak), Num(wH))), Rat(1, 2)))
    IN  [fadeIn |-> stage2FadeIn, fadeOut |-> stage2FadeOut, opacity |-> stage2Opacity,
         scale |-> stage2Scale, end |-> stage2End]

\* Stage 2 of the state-driven variant (green with ocean and quote).
Stage2(sY, wH) ==
    LET y == Num(sY)
        stage2Start == RMul(Num(wH), Rat(1, 2))
        stage2Peak == RMul(Num(wH), Rat(3, 2))
        stage2End == RMul(Num(wH), Rat(5, 2))
        stage2FadeIn ==
            MathMin(MathMax(RDiv(RSub(y, stage2Start), RSub(stage2Peak, stage2Start)), Num(0)), Num(1))
        stage2FadeOut ==
            MathMin(MathMax(RDiv(RSub(y, stage2Peak), RSub(stage2End, stage2Peak)), Num(0)), Num(1))
        stage2Opacity ==
            IF RLt(y, stage2Peak) THEN stage2FadeIn ELSE MathMax(Num(0), RSub(Num(1), stage2FadeOut))
        stage2Scale ==
            RAdd(Num(1), RMul(MathMax(Num(0), RDiv(RSub(y, stage2Peak), Num(wH))), Rat(1, 2)))
    IN  [fadeIn |-> stage2FadeIn, fadeOut |-> stage2FadeOut, opacity |-> stage2Opacity,
         scale |-> stage2Scale, end |-> stage2End]

\* The background colour transition of the state-driven variant (black -> green).
Background(sY, wH) ==
    LET stage2Start == RMul(Num(wH), Rat(1, 2))
        stage2Peak == RMul(Num(wH), Rat(3, 2))
        colorProgress ==
            MathMin(MathMax(RDiv(RSub(Num(sY), stage2Start), RSub(stage2Peak, stage2Start)), Num(0)), Num(1))
        bgR == MathRound(RAdd(Num(15), RMul(Num(30 - 15), colorProgress)))
        bgG == MathRound(RAdd(Num(17), RMul(Num(60 - 17), colorProgress)))
        bgB == MathRound(RAdd(Num(21), RMul(Num(30 - 21), colorProgress)))
    IN  [progress |-> colorProgress, rgb |-> <<bgR, bgG, bgB>>]

\* The header-visibility line of the state-driven variant: stage2End - 0.3 H.
HeaderThreshold(wH) == RSub(RMul(Num(wH), Rat(5, 2)), RMul(Num(wH), Rat(3, 10)))

\* showHeader with an inclusive comparison (>= for >).
ShowHeader_Inclusive(sY, wH) == RLe(HeaderThreshold(wH), Num(sY))

\* showHeader of the state-driven variant.
ShowHeader(sY, wH) == RGt(Num(sY), HeaderThreshold(wH))

\* The stage-1 layer accepting pointer events whatever its opacity.
Stage1Pointer_Always(stage1Opacity) == "auto"

\* pointerEvents of the stage-1 layer (both variants).
Stage1Pointer(stage1Opacity) ==
    IF RGt(stage1Opacity, Rat(3, 10)) THEN "auto" ELSE "none"

\* pointerEvents of the stage-2 layer of the state-driven variant.
Stage2Pointer(stage2Opacity) ==
    IF RGt(stage2Opacity, Rat(1, 2)) THEN "auto" ELSE "none"

\* The body of the state-driven component function: every derived value and
\* the style props of the elements it returns.
Render(sY, wH) ==
    LET s1 == Stage1(sY, wH)
        s2 == Stage2(sY, wH)
        bg == Background(sY, wH)
        showHeader == ShowHeader(sY, wH)
    IN  [ scrollY |-> sY, height |-> wH,
          stage1Progress |-> s1.progress,
          stage1Opacity |-> s1.opacity,
          stage1Scale |-> s1.scale,
          stage2FadeIn |-> s2.fadeIn,
          stage2FadeOut |-> s2.fadeOut,
          stage2Opacity |-> s2.opacity,
          stage2Scale |-> s2.scale,
          colorProgress |-> bg.progress,
          showHeader |-> showHeader,
          headerThreshold |-> HeaderThreshold(wH),
          heroHeight |-> wH * 3,
          \* style props
          styleStage1Opacity |-> s1.opacity,
          styleStage1Scale |-> s1.scale,
          styleStage1Pointer |-> Stage1Pointer(s1.opacity),
          styleStage1Rotate |-> Num(0),
          styleStage1TextOpacity |-> Num(1),
          styleStage2Opacity |-> s2.opacity,
          styleStage2Scale |-> s2.scale,
          styleStage2Pointer |-> Stage2Pointer(s2.opacity),
          styleBg |-> bg.rgb,
          styleViewportActive |-> RLt(Num(sY), s2.end),
          stylePlasmaOpacity |-> s2.opacity,
          plasmaIsVisible |-> RGt(s2.opacity, Rat(1, 10)),
          styleHeaderOpacity |-> IF showHeader THEN 1 ELSE 0,
          styleHeaderPointer |-> IF showHeader THEN "auto" ELSE "none" ]

\* ------------------------------------------------- ScrollHero, direct-write

\* STAGE 1 LOGIC with the fade multiplier 1.5 dropped.
LoopStage1_SlowFade(sY, height) ==
    LET stage1End == Num(height)
        stage1Progress == MathMin(RDiv(Num(sY), stage1End), Num(1))
        stage1Opacity == MathMax(Num(0), RSub(Num(1), stage1Progress))
        stage1Scale == RAdd(Num(1), RMul(stage1Progress, Rat(3, 2)))
        textOpacity == MathMax(Num(0), RSub(Num(1), RMul(stage1Progress, Num(8))))
    IN  [progress |-> stage1Progress, opacity |-> stage1Opacity, scale |-> stage1Scale,
         textOpacity |-> textOpacity]

\* STAGE 1 LOGIC of the loop.
LoopStage1(sY, height) ==
    LET stage1End == Num(height)
        stage1Progress == MathMin(RDiv(Num(sY), stage1End), Num(1))
        stage1Opacity == MathMax(Num(0), RSub(Num(1), RMul(stage1Progress, Rat(3, 2))))
        stage1Scale == RAdd(Num(1), RMul(stage1Progress, Rat(3, 2)))
        textOpacity == MathMax(Num(0), RSub(Num(1), RMul(stage1Progress, Num(8))))
    IN  [progress |-> stage1Progress, opacity |-> stage1Opacity, scale |-> stage1Scale,
         textOpacity |-> textOpacity]

\* STAGE 2 LOGIC of the loop.
LoopStage2(sY, height) ==
    LET y == Num(sY)
        stage2Start == RMul(Num(height), Rat(1, 2))
        stage2Peak == RMul(Num(height), Rat(3, 2))
        stage2End == RMul(Num(height), Rat(5, 2))
        stage2FadeIn ==
            MathMin(MathMax(RDiv(RSub(y, stage2Start), RSub(stage2Peak, stage2Start)), Num(0)), Num(1))
        stage2FadeOut ==
            MathMin(MathMax(RDiv(RSub(y, stage2Peak), RSub(stage2End, stage2Peak)), Num(0)), Num(1))
        stage2Opacity ==
            IF RLt(y, stage2Peak) THEN stage2FadeIn ELSE MathMax(Num(0), RSub(Num(1), stage2FadeOut))
        stage2Scale ==
            RAdd(Num(1), RMul(MathMax(Num(0), RDiv(RSub(y, stage2Peak), Num(height))), Rat(1, 2)))
    IN  [fadeIn |-> stage2FadeIn, fadeOut |-> stage2FadeOut, opacity |-> stage2Opacity,
         scale |-> stage2Scale, end |-> stage2End]

\* BACKGROUND LOGIC with the channels truncated (Math.floor for Math.round).
LoopBackground_Floor(sY, height) ==
    LET MathFloor(a) == a[1] \div a[2]
        stage2Start == RMul(Num(height), Rat(1, 2))
        stage2Peak == RMul(Num(height), Rat(3, 2))
        colorProgress ==
            MathMin(MathMax(RDiv(RSub(Num(sY), stage2Start), RSub(stage2Peak, stage2Start)), Num(0)), Num(1))
        bgR == MathFloor(RAdd(Num(15), RMul(Num(30 - 15), colorProgress)))
        bgG == MathFloor(RAdd(Num(17), RMul(Num(60 - 17), colorProgress)))
        bgB == MathFloor(RAdd(Num(21), RMul(Num(30 - 21), colorProgress)))
    IN  [progress |-> colorProgress, rgb |-> <<bgR, bgG, bgB>>]

\* BACKGROUND LOGIC of the loop: the colour transition.
LoopBackground(sY, height) ==
    LET stage2Start == RMul(Num(height), Rat(1, 2))
        stage2Peak == RMul(Num(height), Rat(3, 2))
        colorProgress ==
            MathMin(MathMax(RDiv(RSub(Num(sY), stage2Start), RSub(stage2Peak, stage2Start)), Num(0)), Num(1))
        bgR == MathRound(RAdd(Num(15), RMul(Num(30 - 15), colorProgress)))
        bgG == MathRound(RAdd(Num(17), RMul(Num(60 - 17), colorProgress)))
        bgB == MathRound(RAdd(Num(21), RMul(Num(30 - 21), colorProgress)))
    IN  [progress |-> colorProgress, rgb |-> <<bgR, bgG, bgB>>]

\* The header-visibility line of the loop: stage2End - height * 0.3.
LoopHeaderThreshold(height) ==
    RSub(RMul(Num(height), Rat(5, 2)), RMul(Num(height), Rat(3, 10)))

\* HEADER VISIBILITY with the line at stage2End (the 0.3 * height offset forgotten).
LoopShowHeader_AtStageEnd(sY, height) == RGt(Num(sY), RMul(Num(height), Rat(5, 2)))

\* HEADER VISIBILITY of the loop.
LoopShowHeader(sY, height) == RGt(Num(sY), LoopHeaderThreshold(height))

\* One run of the animation loop's body: the values it computes from
\* window.scrollY and the closure's currentHeight, and the styles it writes.
LoopFrame(sY, height) ==
    LET s1 == LoopStage1(sY, height)
        s2 == LoopStage2(sY, height)
        bg == LoopBackground(sY, height)
        isActive == RLt(Num(sY), s2.end)
        showHeader == LoopShowHeader(sY, height)
    IN  [ scrollY |-> sY, height |-> height,
          stage1Progress |-> s1.progress,
          stage1Opacity |-> s1.opacity,
          stage1Scale |-> s1.scale,
          stage2FadeIn |-> s2.fadeIn,
          stage2FadeOut |-> s2.fadeOut,
          stage2Opacity |-> s2.opacity,
          stage2Scale |-> s2.scale,
          colorProgress |-> bg.progress,
          showHeader |-> showHeader,
          headerThreshold |-> LoopHeaderThreshold(height),
          heroHeight |-> height * 3,
          \* styles written through the refs
          styleStage1Opacity |-> ToFixed3(s1.opacity),
          styleStage1Scale |-> ToFixed3(s1.scale),
          styleStage1Pointer |-> Stage1Pointer(s1.opacity),
          styleStage1Rotate |-> ToFixed1(RMul(s1.progress, Num(360))),
          styleStage1TextOpacity |-> ToFixed3(s1.textOpacity),
          styleStage2Opacity |-> ToFixed3(s2.opacity),
          styleStage2Scale |-> ToFixed3(s2.scale),
          styleStage2Pointer |-> "none",
          styleBg |-> bg.rgb,
          styleViewportActive |-> isActive,
          stylePlasmaOpacity |-> ToFixed3(s2.opacity),
          plasmaIsVisible |-> TRUE,
          styleHeaderOpacity |-> IF showHeader THEN 1 ELSE 0,
          styleHeaderPointer |-> IF showHeader THEN "auto" ELSE "none" ]

\* The styles of the direct-write variant's JSX, before the loop has run. The
\* loop has computed nothing yet: the value fields hold what these styles stand
\* for (the top of the page in the default 1000-pixel window).
InitialStyles ==
    [ scrollY |-> 0, height |-> 1000,
      stage1Progress |-> Num(0), stage1Opacity |-> Num(1), stage1Scale |-> Num(1),
      stage2FadeIn |-> Num(0), stage2FadeOut |-> Num(0), stage2Opacity |-> Num(0),
      stage2Scale |-> Num(1), colorProgress |-> Num(0), showHeader |-> FALSE,
      headerThreshold |-> Num(2200), heroHeight |-> 1000 * 3,
      styleStage1Opacity |-> Num(1), styleStage1Scale |-> Num(1),
      styleStage1Pointer |-> "auto", styleStage1Rotate |-> Num(0),
      styleStage1TextOpacity |-> Num(1),
      styleStage2Opacity |-> Num(0), styleStage2Scale |-> Num(1),
      styleStage2Pointer |-> "none", styleBg |-> <<15, 17, 21>>,
      styleViewportActive |-> TRUE, stylePlasmaOpacity |-> Num(0),
      plasmaIsVisible |-> TRUE, styleHeaderOpacity |-> 0, styleHeaderPointer |-> "none" ]

\* ------------------------------------------------------- shader renderers

Renderers == {"PlasmaBackground", "NeuralOceanBackground", "PlasmaOcean", "PlasmaOceanNeural"}

\* The variants that test the reduced-motion preference before getContext.
ChecksReducedMotion(v) == v \in {"PlasmaOcean", "PlasmaOceanNeural"}

\* The variants that keep a hasWebGL state and return a gradient <div> when it is false.
HasFallback(v) == v \in {"PlasmaOcean", "PlasmaOceanNeural"}

\* The variants whose render() tests visibility before drawing.
ChecksVisibility(v) == v \in {"PlasmaOcean", "PlasmaOceanNeural"}

\* The variants whose main effect lists isVisible among its dependencies.
EffectDependsOnIsVisible(v) == v = "PlasmaOcean"

\* The variants whose main effect lists intensity among its dependencies
\* (PlasmaOceanNeural copies the prop into intensityRef instead).
EffectDependsOnIntensity(v) == v # "PlasmaOceanNeural"

\* The listeners a successful initialisation registers.
ListenersOf(v) ==
    CASE v = "PlasmaBackground" -> {"resize"}
      [] v = "NeuralOceanBackground" -> {"resize", "mousemove", "mouseleave"}
      [] v = "PlasmaOcean" -> {"resize", "visibilitychange"}
      [] v = "PlasmaOceanNeural" ->
            {"resize", "mousemove", "touchmove", "mouseleave", "touchend", "click",
             "touchstart", "visibilitychange"}

NoFrame == [ran |-> FALSE, viaRaf |-> FALSE, effVisible |-> FALSE, uniforms |-> FALSE,
            drew |-> FALSE, requested |-> 0]

\* The window width below which PlasmaOceanNeural counts as mobile.
MobileBreakpoint == 768

\* The default canvas element is 300 x 150.
DefaultCanvas == <<300, 150>>

\* The destructuring defaults of the props: isVisible = true, intensity = 1.0.
DefaultIsVisible == TRUE
DefaultIntensity == Num(1)

\* The pixel-ratio cap handleResize uses, in a window winW wide.
ResizeDprCap(v, winW) ==
    CASE v = "PlasmaOceanNeural" -> IF winW < MobileBreakpoint THEN Num(1) ELSE Rat(3, 2)
      [] v = "PlasmaOcean" -> Rat(3, 2)
      [] v = "NeuralOceanBackground" -> Num(2)
      [] v = "PlasmaBackground" -> Num(2)

\* The pixel-ratio cap the pointer and click handlers use.
PointerDprCap(v) ==
    CASE v = "PlasmaOceanNeural" -> Rat(3, 2)
      [] v = "NeuralOceanBackground" -> Num(2)
      [] OTHER -> Num(1)

\* Assigning a non-negative Number to canvas.width / canvas.height (an
\* unsigned long attribute) drops its fraction.
ToUnsignedLong(a) == a[1] \div a[2]

\* The uniforms no draw has sent yet.
NothingSent == [mouse |-> <<Num(0), Num(0)>>, mouseActive |-> FALSE, intensity |-> Num(0)]

\* No program has been released yet.
NoRelease == [done |-> FALSE, rafPending |-> 0, listeners |-> {}]

\* The refs and state of a renderer instance whose effect has not run yet.
\* isVis is the isVisible prop at construction (useRef(isVisible)).
FreshInstance(isVis) ==
    [ mounted |-> FALSE,
      effectActive |-> FALSE,      \* the effect returned its cleanup function
      hasWebGL |-> TRUE,           \* useState(true)
      glRef |-> FALSE,             \* glRef.current holds a context
      programRef |-> "null",       \* "null", "live" or "deleted"
      isVisibleRef |-> TRUE,       \* useRef(true)
      isVisiblePropRef |-> isVis,  \* useRef(isVisible)
      closureIsVisible |-> isVis,  \* the isVisible the effect's render closure captured
      intensitySeen |-> propIntensity,   \* the intensity render() reads: intensityRef, or its closure's
      listeners |-> {},
      rafPending |-> 0,            \* frame requests pending
      outcome |-> "none",          \* how far the last effect run got
      lastFrame |-> NoFrame,       \* what the last run of render() did
      atRelease |-> NoRelease,     \* what was still pending when deleteProgram last ran
      \* the canvas backing buffer and the GL viewport
      canvasWidth |-> DefaultCanvas[1], canvasHeight |-> DefaultCanvas[2],
      viewport |-> <<0, 0>>,
      mouse |-> [x |-> Num(0), y |-> Num(0), active |-> FALSE],   \* mouseRef
      click |-> [x |-> Num(0), y |-> Num(0), time |-> Num(-1)],   \* clickRef
      sent |-> NothingSent,        \* the u_mouse, u_mouseActive, u_intensity the last draw sent
      \* GPU objects created and not deleted
      liveShaders |-> 0, livePrograms |-> 0, liveBuffers |-> 0,
      \* call counts
      drawCalls |-> 0, frameRequests |-> 0, frames |-> 0, inits |-> 0 ]

\* The component returns the gradient <div> instead of the <canvas>.
FallbackShown(v, r) == HasFallback(v) /\ ~r.hasWebGL

\* The visibility render() sees: the tab's, as last recorded by the
\* visibilitychange handler, and the prop's, through the closure (PlasmaOcean)
\* or the prop ref (PlasmaOceanNeural).
SeenVisible(v, r) ==
    /\ r.isVisibleRef
    /\ IF v = "PlasmaOcean" THEN r.closureIsVisible ELSE r.isVisiblePropRef

\* requestAnimationFrame(render).
RequestFrame(r) ==
    [r EXCEPT !.rafPending = @ + 1, !.frameRequests = @ + 1]

\* The uniforms render() sends before it draws, from the refs as they are now.
DrawUniforms(r) ==
    [ mouse |-> <<r.mouse.x, r.mouse.y>>,
      mouseActive |-> r.mouse.active,
      clickTime |-> r.click.time,
      clickPos |-> <<r.click.x, r.click.y>>,
      intensity |-> r.intensitySeen ]

\* The body of render(). viaRaf: called by the browser as a frame callback
\* (else by the effect itself); effVis: tab visible and isVisible prop true.
RenderBody(v, r, viaRaf, effVis) ==
    IF r.programRef = "null"
    THEN [r EXCEPT !.lastFrame = [ran |-> TRUE, viaRaf |-> viaRaf, effVisible |-> effVis,
                                   uniforms |-> FALSE, drew |-> FALSE, requested |-> 0]]
    ELSE IF ChecksVisibility(v) /\ ~SeenVisible(v, r)
    THEN [RequestFrame(r) EXCEPT
            !.lastFrame = [ran |-> TRUE, viaRaf |-> viaRaf, effVisible |-> effVis,
                           uniforms |-> FALSE, drew |-> FALSE, requested |-> 1]]
    ELSE [RequestFrame(r) EXCEPT
            !.drawCalls = @ + 1,
            !.sent = [mouse |-> DrawUniforms(r).mouse,
                      mouseActive |-> DrawUniforms(r).mouseActive,
                      intensity |-> DrawUniforms(r).intensity],
            !.lastFrame = [ran |-> TRUE, viaRaf |-> viaRaf, effVisible |-> effVis,
                           uniforms |-> TRUE, drew |-> TRUE, requested |-> 1]]

\* handleResize with the pixel ratio left uncapped.
HandleResize_NoCap(v, r, winW, dpr, size) ==
    LET ratio == dpr
        w == ToUnsignedLong(RMul(Num(size[1]), ratio))
        h == ToUnsignedLong(RMul(Num(size[2]), ratio))
    IN  [r EXCEPT !.canvasWidth = w, !.canvasHeight = h, !.viewport = <<w, h>>]

\* handleResize, in a window winW wide reporting the pixel ratio dpr, with the
\* canvas laid out at size.
HandleResize(v, r, winW, dpr, size) ==
    LET ratio == MathMin(dpr, ResizeDprCap(v, winW))
        w == ToUnsignedLong(RMul(Num(size[1]), ratio))
        h == ToUnsignedLong(RMul(Num(size[2]), ratio))
    IN  [r EXCEPT !.canvasWidth = w, !.canvasHeight = h, !.viewport = <<w, h>>]

\* The surface position the pointer and click handlers compute for an event
\* at offset <<clientX - rect.left, clientY - rect.top>> from the canvas corner.
SurfacePosition(v, r, dpr, offset) ==
    LET ratio == MathMin(dpr, PointerDprCap(v))
    IN  [x |-> RMul(Num(offset[1]), ratio),
         y |-> RSub(Num(r.canvasHeight), RMul(Num(offset[2]), ratio))]

\* handlePointerMove redrawing at once (a gl.drawArrays call in the handler).
HandlePointerMove_Draws(v, r, dpr, offset) ==
    LET pos == SurfacePosition(v, r, dpr, offset)
    IN  [r EXCEPT !.mouse = [x |-> pos.x, y |-> pos.y, active |-> TRUE],
                  !.drawCalls = @ + 1]

\* handlePointerMove / handleMouseMove.
HandlePointerMove(v, r, dpr, offset) ==
    LET pos == SurfacePosition(v, r, dpr, offset)
    IN  [r EXCEPT !.mouse = [x |-> pos.x, y |-> pos.y, active |-> TRUE]]

\* handlePointerLeave with the stored position reset as well.
HandlePointerLeave_Reset(r) ==
    [r EXCEPT !.mouse = [x |-> Num(0), y |-> Num(0), active |-> FALSE]]

\* handlePointerLeave / handleMouseLeave.
HandlePointerLeave(r) == [r EXCEPT !.mouse.active = FALSE]

\* handleClick at clock tick t: the time is in seconds.
HandleClick(v, r, dpr, offset, t) ==
    LET pos == SurfacePosition(v, r, dpr, offset)
    IN  [r EXCEPT !.click = [x |-> pos.x, y |-> pos.y, time |-> Rat(t, 2)]]

\* createShader for the vertex and the fragment shader: each is created, and
\* deleted again only if it is the one that failed to compile.
CreateShaders(r, vsOk, fsOk) ==
    [r EXCEPT !.liveShaders = @ + (IF vsOk THEN 1 ELSE 0) + (IF fsOk THEN 1 ELSE 0)]

\* createProgram: the program is created; a link failure returns null
\* without deleting it.
CreateProgram(r) == [r EXCEPT !.livePrograms = @ + 1]

\* How far the effect gets on this platform.
EffectOutcome(v, r, reduced, ctx, vsOk, fsOk, linkOk) ==
    IF FallbackShown(v, r) THEN "noCanvas"
    ELSE IF ChecksReducedMotion(v) /\ reduced THEN "reducedMotion"
    ELSE IF ~ctx THEN "noContext"
    ELSE IF ~vsOk \/ ~fsOk THEN "compileFailed"
    ELSE IF ~linkOk THEN "linkFailed"
    ELSE "running"

\* setHasWebGL(false) on an early return, in the variants that have the state.
SignalUnavailable(v, r) ==
    IF HasFallback(v) THEN [r EXCEPT !.hasWebGL = FALSE] ELSE r

\* The main effect of a renderer, run on the instance r.
Effect(v, r, isVis, intens, effVis, reduced, ctx, vsOk, fsOk, linkOk) ==
    LET out == EffectOutcome(v, r, reduced, ctx, vsOk, fsOk, linkOk)
        r0 == [r EXCEPT !.outcome = out, !.effectActive = FALSE, !.closureIsVisible = isVis,
                        !.intensitySeen = intens]
        r1 == [r0 EXCEPT !.glRef = TRUE, !.inits = @ + 1]
        r2 == CreateShaders(r1, vsOk, fsOk)
        r3 == CreateProgram(r2)
        r4 == [HandleResize(v, r3, innerWidth, devicePixelRatio, clientSize) EXCEPT
                         !.programRef = "live",
                         !.liveBuffers = @ + 1,
                         !.listeners = ListenersOf(v),
                         !.effectActive = TRUE]
    IN  CASE out = "noCanvas" -> r0
          [] out = "reducedMotion" -> SignalUnavailable(v, r0)
          [] out = "noContext" -> SignalUnavailable(v, r0)
          [] out = "compileFailed" -> SignalUnavailable(v, r2)
          [] out = "linkFailed" -> SignalUnavailable(v, r3)
          [] out = "running" -> RenderBody(v, r4, FALSE, effVis)

\* cancelAnimationFrame(animationRef.current): the last request, if pending.
CancelFrame(r) == [r EXCEPT !.rafPending = IF @ > 0 THEN @ - 1 ELSE 0]

\* The removeEventListener calls of the cleanup: one per registered listener.
RemoveListeners(r) == [r EXCEPT !.listeners = {}]

\* gl.deleteProgram(program); the ref keeps pointing at the deleted program.
DeleteProgram(r) ==
    [r EXCEPT !.programRef = "deleted",
              !.livePrograms = @ - 1,
              !.atRelease = [done |-> TRUE, rafPending |-> r.rafPending,
                             listeners |-> r.listeners]]

\* The cleanup with the program deleted first, before the frame is cancelled
\* and the listeners are removed.
Cleanup_ReleaseFirst(r) ==
    IF ~r.effectActive THEN r
    ELSE [RemoveListeners(CancelFrame(DeleteProgram(r))) EXCEPT !.effectActive = FALSE]

\* The cleanup function the effect returned, if it returned one: listeners
\* removed, frame cancelled, then the program deleted.
Cleanup(r) ==
    IF ~r.effectActive THEN r
    ELSE [DeleteProgram(CancelFrame(RemoveListeners(r))) EXCEPT !.effectActive = FALSE]

\* --------------------------------------- the fragment shader's click ripple

RIPPLE_STRENGTH == Rat(2, 5)
RIPPLE_SPEED == Rat(5, 2)

\* The sampled positions are multiples of 1/40 of the surface, chosen so that
\* every fragment-to-click distance is rational; times are multiples of half a
\* second, up to MaxShaderTicks of them.
MaxShaderTicks == 6
FragmentPositions ==
    {<<Rat(x, 40), Rat(20, 40)>> : x \in {0, 5, 8, 17, 20, 23, 35, 38, 40}}
        \cup {<<Rat(20, 40), Rat(36, 40)>>}
ClickPositions == {<<Rat(20, 40), Rat(20, 40)>>, <<Rat(8, 40), Rat(20, 40)>>}
CurrentTimes == {Rat(k, 2) : k \in 0..MaxShaderTicks}
ClickTimes == {Num(-1)} \cup {Rat(k, 2) : k \in 0..2}

\* GLSL length() of a 2-vector whose length is rational.
length(v) ==
    LET d == v[1][2] * v[2][2]
        a == Abs(v[1][1]) * v[2][2]
        b == Abs(v[2][1]) * v[1][2]
        c == CHOOSE c \in 0..(a + b) : c * c = a * a + b * b
    IN  Rat(c, d)

\* GLSL clamp() and smoothstep().
clamp(x, lo, hi) == MathMin(MathMax(x, lo), hi)

smoothstep(edge0, edge1, x) ==
    LET t == clamp(RDiv(RSub(x, edge0), RSub(edge1, edge0)), Num(0), Num(1))
    IN  RMul(RMul(t, t), RSub(Num(3), RMul(Num(2), t)))

\* GLSL exp() at the arguments the sampled times produce, 0, -3/4, -3/2, ...,
\* to three decimals.
exp(x) ==
    LET k == ((0 - x[1]) * 4) \div (x[2] * 3)
        thousandths == <<1000, 472, 223, 105, 50, 24, 11, 5, 2, 1>>
    IN  Rat(thousandths[k + 1], 1000)

\* rippleEffect without the test for the no-click sentinel.
rippleEffect_NoSentinel(uv, clickPos, clickTime, currentTime) ==
    LET timeSinceClick == RSub(currentTime, clickTime)
        dist == length(<<RSub(uv[1], clickPos[1]), RSub(uv[2], clickPos[2])>>)
        rippleRadius == RMul(RMul(timeSinceClick, RIPPLE_SPEED), Rat(3, 10))
        rippleWidth == Rat(1, 10)
        ripple == RSub(smoothstep(RSub(rippleRadius, rippleWidth), rippleRadius, dist),
                       smoothstep(rippleRadius, RAdd(rippleRadius, rippleWidth), dist))
    IN  IF RGt(timeSinceClick, Num(2)) THEN Num(0)
        ELSE RMul(ripple, RMul(exp(RMul(RSub(Num(0), timeSinceClick), Rat(3, 2))),
                               RIPPLE_STRENGTH))

\* rippleEffect of the fragment shader.
rippleEffect(uv, clickPos, clickTime, currentTime) ==
    LET timeSinceClick == RSub(currentTime, clickTime)
        dist == length(<<RSub(uv[1], clickPos[1]), RSub(uv[2], clickPos[2])>>)
        rippleRadius == RMul(RMul(timeSinceClick, RIPPLE_SPEED), Rat(3, 10))
        rippleWidth == Rat(1, 10)
        ripple == RSub(smoothstep(RSub(rippleRadius, rippleWidth), rippleRadius, dist),
                       smoothstep(rippleRadius, RAdd(rippleRadius, rippleWidth), dist))
    IN  IF RLt(clickTime, Num(0)) THEN Num(0)
        ELSE IF RGt(timeSinceClick, Num(2)) THEN Num(0)
        ELSE RMul(ripple, RMul(exp(RMul(RSub(Num(0), timeSinceClick), Rat(3, 2))),
                               RIPPLE_STRENGTH))

\* ------------------------------------------- hover particles of the cards

CardKinds == {"JobCard", "ComparisonCard"}

\* A card is hovered at most MaxHovers times, and the mouse moves over it at
\* most MaxCardMoves times.
MaxHovers == 1
MaxCardMoves == 1

\* The n of prev.slice(-n) in createSparkle / createEmoji.
SliceKeep(kind) == IF kind = "JobCard" THEN 20 ELSE 10

\* The life a new particle starts with: 0.6 + Math.random() * 0.4 sampled at
\* its least value for a sparkle, 1 for an emoji.
NewLife(kind) == IF kind = "JobCard" THEN Rat(3, 5) ELSE Num(1)

\* The delay of the next spawn timeout, in refresh intervals of a 60 Hz
\* display: 150 + Math.random() * 200 ms, or 180 + Math.random() * 220 ms,
\* sampled at both ends.
SpawnDelays(kind) == IF kind = "JobCard" THEN {9, 21} ELSE {10, 24}

\* The number of particles one timeout creates: 1 + Math.floor(Math.random() * 2)
\* sparkles, or one emoji.
BurstCounts(kind) == IF kind = "JobCard" THEN {1, 2} ELSE {1}

\* Array.prototype.slice(-n): the last n elements.
SliceLast(seq, n) ==
    IF Len(seq) <= n THEN seq ELSE SubSeq(seq, Len(seq) - n + 1, Len(seq))

\* createSparkle / createEmoji applied to the list prev; an emoji starts at
\* scale 0 (a sparkle has no scale; the field stays 0).
CreateParticle(kind, prev) ==
    Append(SliceLast(prev, SliceKeep(kind)), [life |-> NewLife(kind), scale |-> Num(0)])

\* count calls of createSparkle / createEmoji in a row.
RECURSIVE CreateBurst(_, _, _)
CreateBurst(kind, prev, count) ==
    IF count = 0 THEN prev ELSE CreateBurst(kind, CreateParticle(kind, prev), count - 1)

\* The scale of an emoji whose life has become newLife: it grows to 1.2 over
\* the first quarter of its life, then shrinks to 0.
EmojiScale(newLife) ==
    LET phase == RSub(Num(1), newLife)
        newScale == IF RLt(phase, Rat(1, 4))
                    THEN RMul(RDiv(phase, Rat(1, 4)), Rat(6, 5))
                    ELSE RMul(Rat(6, 5),
                              RSub(Num(1), RDiv(RSub(phase, Rat(1, 4)), Rat(3, 4))))
    IN  MathMax(Num(0), newScale)

\* The map callback of the animation frame, on one particle.
AgeParticle(kind, p) ==
    LET newLife == RSub(p.life, Rat(1, 50))
    IN  [life |-> newLife,
         scale |-> IF kind = "JobCard" THEN p.scale ELSE EmojiScale(newLife)]

\* The state updater of the animation frame: every particle aged, the dead
\* ones filtered out.
AnimateParticles(kind, prev) ==
    LET aged == [i \in 1..Len(prev) |-> AgeParticle(kind, prev[i])]
        alive(p) == RGt(p.life, Num(0))
    IN  SelectSeq(aged, alive)

\* ------------------------------------------------------------ HeartButton

\* At most MaxHeartUpdates state updates are queued between two renders.
MaxHeartUpdates == 3

\* The updater of the "grow" branch: [scale, reached] (reached: it called
\* setPhase("wobble")).
GrowUpdater(prev) ==
    LET next == RAdd(prev, Rat(1, 10))
    IN  IF RLe(Num(1), next) THEN [scale |-> Num(1), reached |-> TRUE]
        ELSE [scale |-> next, reached |-> FALSE]

\* The updater of the "shrink" branch: [scale, reached] (reached: it called
\* setPhase("idle")).
ShrinkUpdater(prev) ==
    LET next == RSub(prev, Rat(3, 20))
    IN  IF RLe(next, Num(0)) THEN [scale |-> Num(0), reached |-> TRUE]
        ELSE [scale |-> next, reached |-> FALSE]

\* A queued state update: the set-state calls of one handler or effect
\* ("enter", "leave", "stopWobble", "rotate"), an updater still to be called
\* ("growStep", "shrinkStep"), or the result of an updater React called at
\* once ("eager": the scale it returned and the phase it set, or "none").
Update(op) == [op |-> op, scale |-> Num(0), phase |-> "none"]
EagerUpdate(result, ph) ==
    [op |-> "eager", scale |-> result.scale, phase |-> IF result.reached THEN ph ELSE "none"]

\* One queued update applied to st = [scale, phase, late]. A setPhase made by
\* an updater that is called while the component renders is queued behind
\* every update of the render: late holds it.
ApplyUpdate(st, u) ==
    LET lazy(result, ph) ==
            [st EXCEPT !.scale = result.scale,
                       !.late = IF result.reached THEN ph ELSE st.late]
    IN  CASE u.op = "enter" -> [st EXCEPT !.scale = Num(0), !.phase = "grow"]
          [] u.op \in {"leave", "stopWobble"} -> [st EXCEPT !.phase = "shrink"]
          [] u.op = "rotate" -> st
          [] u.op = "eager" ->
                [st EXCEPT !.scale = u.scale,
                           !.phase = IF u.phase = "none" THEN st.phase ELSE u.phase]
          [] u.op = "growStep" -> lazy(GrowUpdater(st.scale), "wobble")
          [] u.op = "shrinkStep" -> lazy(ShrinkUpdater(st.scale), "idle")

\* The queued updates applied oldest first.
RECURSIVE ProcessUpdates(_, _)
ProcessUpdates(queue, st) ==
    IF queue = <<>> THEN st
    ELSE CHOOSE r \in {ProcessUpdates(Tail(queue), next) :
                          next \in {ApplyUpdate(st, Head(queue))}} : TRUE

\* isHovered after the queued updates.
HoveredAfter(queue, hovered) ==
    LET events == SelectSeq(queue, LAMBDA u : u.op \in {"enter", "leave"})
    IN  IF events = <<>> THEN hovered ELSE events[Len(events)].op = "enter"

\* ------------------------------------------------------------ Home, JobModal

\* page.tsx holds two versions of Home: lines 25-378 and lines 407-768.
HomeVersions == {"earlier", "later"}

\* Strings are sequences of characters. Three sample roles of roles.json:
\* r2 belongs to team "g" and, by its teams array, to team "e" as well; a
\* role without a teams member has teams = <<>>.
Role ==
    [r1 |-> [title |-> <<"A", "d">>, summary |-> <<"o", "p">>, brand |-> <<"x">>,
             team |-> <<"e">>, teams |-> <<>>, type |-> <<"f">>, location |-> <<"r">>],
     r2 |-> [title |-> <<"O", "p">>, summary |-> <<"a", "d">>, brand |-> <<"y">>,
             team |-> <<"g">>, teams |-> << <<"e">> >>, type |-> <<"f">>, location |-> <<"l">>],
     r3 |-> [title |-> <<"d">>, summary |-> <<>>, brand |-> <<"x">>,
             team |-> <<"g">>, teams |-> <<>>, type |-> <<"c">>, location |-> <<"r">>]]

\* The role lists a fetched body can hold.
RoleLists == {<<>>, <<"r1", "r2", "r3">>, <<"r2", "r1">>}

\* How loadRoles can settle: a body with a roles array, a body without a
\* roles member, a body that is null, a rejected fetch, a body that is not JSON.
FetchOutcomes ==
    {[kind |-> "roles", roles |-> l] : l \in RoleLists}
        \cup {[kind |-> k, roles |-> <<>>] : k \in {"noRoles", "nullBody", "rejected", "badJson"}}

\* The values the search box and the four dropdowns are set to.
FilterValues ==
    [search |-> {<<>>, <<"a", "D">>, <<"p", " ", "e">>},
     brand |-> {<<>>, <<"x">>},
     team |-> {<<>>, <<"e">>, <<"g">>},
     type |-> {<<>>, <<"f">>},
     location |-> {<<>>, <<"r">>}]

NoFilters == [search |-> <<>>, brand |-> <<>>, team |-> <<>>, type |-> <<>>, location |-> <<>>]

\* matchesSearch of filteredRoles: the lower-cased search text is found in the
\* lower-cased title, summary, team and brand joined by spaces.
MatchesSearch(r, q) ==
    LET toLowerCase(str) ==
            [i \in DOMAIN str |-> CASE str[i] = "A" -> "a" [] str[i] = "D" -> "d"
                                    [] str[i] = "O" -> "o" [] OTHER -> str[i]]
        includes(str, sub) ==
            \E i \in 1..(Len(str) + 1) :
                i + Len(sub) - 1 <= Len(str) /\ SubSeq(str, i, i + Len(sub) - 1) = sub
        joined == r.title \o <<" ">> \o r.summary \o <<" ">> \o r.team \o <<" ">> \o r.brand
    IN  q = <<>> \/ includes(toLowerCase(joined), toLowerCase(q))

\* The callback of roles.filter in filteredRoles, in either version.
MatchesFilters(version, r, f) ==
    /\ MatchesSearch(r, f.search)
    /\ f.brand = <<>> \/ r.brand = f.brand
    /\ \/ f.team = <<>>
       \/ r.team = f.team
       \/ version = "later" /\ \E i \in DOMAIN r.teams : r.teams[i] = f.team
    /\ f.type = <<>> \/ r.type = f.type
    /\ f.location = <<>> \/ r.location = f.location

\* roles.filter(...): the matching roles, in list order.
RECURSIVE FilterRoles(_, _, _)
FilterRoles(version, list, f) ==
    IF list = <<>> THEN <<>>
    ELSE (IF MatchesFilters(version, Role[Head(list)], f) THEN <<Head(list)>> ELSE <<>>)
            \o FilterRoles(version, Tail(list), f)

\* useMemo filteredRoles.
filteredRoles == FilterRoles(pageVersion, roles, filters)

\* What loadRoles leaves without its finally block.
LoadRolesResult_NoFinally(outcome, prev) ==
    [roles |-> CASE outcome.kind = "roles" -> outcome.roles
                 [] outcome.kind = "noRoles" -> <<>>
                 [] OTHER -> prev,
     loading |-> outcome.kind \notin {"roles", "noRoles"}]

\* What loadRoles leaves in roles and loading when it settles.
LoadRolesResult(outcome, prev) ==
    [roles |-> CASE outcome.kind = "roles" -> outcome.roles
                 [] outcome.kind = "noRoles" -> <<>>
                 [] OTHER -> prev,
     loading |-> FALSE]

\* handleCloseModal that keeps the role.
HandleCloseModal_KeepsRole == [isModalOpen |-> FALSE, selectedRole |-> selectedRole]

\* handleCloseModal: setIsModalOpen(false), setSelectedRole(null).
HandleCloseModal == [isModalOpen |-> FALSE, selectedRole |-> "null"]

\* A cleanup that leaves its listener registered.
RemoveEventListener_Kept(count, added) == count

\* document.removeEventListener with the handler the effect run registered.
RemoveEventListener(count, added) == count - added

\* ------------------------------------------------------------ Init

\* No fragment has been shaded.
Unshaded == [done |-> FALSE, value |-> Num(0)]

\* The shader is not running: a fragment at the origin, no click recorded.
NoFragment ==
    /\ fragment = [uv |-> <<Num(0), Num(0)>>, clickPos |-> <<Num(0), Num(0)>>,
                   clickTime |-> Num(-1), currentTime |-> Num(0)]
    /\ rippleOut = Unshaded

\* A fragment about to be shaded, with any recorded click (or none) and any
\* current time not before the click.
AnyFragment ==
    /\ fragment \in {f \in [uv : FragmentPositions, clickPos : ClickPositions,
                             clickTime : ClickTimes, currentTime : CurrentTimes] :
                        RLe(f.clickTime, f.currentTime)}
    /\ rippleOut = Unshaded

\* The state after the first render of a ScrollHero and before its effect.
FreshScrollHero ==
    /\ innerHeight \in WindowHeights
    /\ innerWidth \in WindowWidths
    /\ winScrollY \in ScrollOffsets
    /\ shVariant \in {"state", "direct"}
    /\ shMounted = FALSE
    /\ scrollY = 0
    /\ windowHeight = 1000
    /\ currentHeight = 0
    /\ lastWidth = 0
    /\ shListeners = {}
    /\ shRafPending = FALSE
    /\ view = IF shVariant = "state" THEN Render(0, 1000) ELSE InitialStyles

\* The state after the first render of a shader renderer and before its effect,
\* on any platform.
FreshRenderer ==
    /\ prefersReducedMotion \in BOOLEAN
    /\ ctxAvailable \in BOOLEAN
    /\ vsCompiles \in BOOLEAN
    /\ fsCompiles \in BOOLEAN
    /\ programLinks \in BOOLEAN
    /\ tabVisible \in BOOLEAN
    /\ rVariant \in Renderers
    /\ propsSupplied \in BOOLEAN
    /\ propIsVisible \in (IF propsSupplied /\ ChecksVisibility(rVariant)
                          THEN BOOLEAN ELSE {DefaultIsVisible})
    /\ propIntensity \in (IF propsSupplied THEN Intensities ELSE {DefaultIntensity})
    /\ devicePixelRatio = Num(1)
    /\ clientSize = DefaultCanvas
    /\ now = 0
    /\ rnd = FreshInstance(propIsVisible)

\* A page with no ScrollHero: a 1000 x 1000 window at the top.
NoScrollHero ==
    /\ innerHeight = 1000
    /\ innerWidth = 1000
    /\ winScrollY = 0
    /\ shVariant = "state"
    /\ shMounted = FALSE
    /\ scrollY = 0
    /\ windowHeight = 1000
    /\ currentHeight = 0
    /\ lastWidth = 0
    /\ shListeners = {}
    /\ shRafPending = FALSE
    /\ view = Render(0, 1000)

\* A page with no shader renderer, on a platform where WebGL works.
NoRenderer ==
    /\ prefersReducedMotion = FALSE
    /\ ctxAvailable = TRUE
    /\ vsCompiles = TRUE
    /\ fsCompiles = TRUE
    /\ programLinks = TRUE
    /\ tabVisible = TRUE
    /\ rVariant = "PlasmaOcean"
    /\ propsSupplied = TRUE
    /\ propIsVisible = TRUE
    /\ propIntensity = DefaultIntensity
    /\ devicePixelRatio = Num(1)
    /\ clientSize = DefaultCanvas
    /\ now = 0
    /\ rnd = FreshInstance(TRUE)

\* The state after the first render of a shader renderer and before its
\* effect, in a visible tab on a platform where WebGL works, with the canvas
\* laid out on any screen.
RendererOnScreen ==
    /\ prefersReducedMotion = FALSE
    /\ ctxAvailable = TRUE
    /\ vsCompiles = TRUE
    /\ fsCompiles = TRUE
    /\ programLinks = TRUE
    /\ tabVisible = TRUE
    /\ rVariant \in Renderers
    /\ propsSupplied = TRUE
    /\ propIsVisible = TRUE
    /\ propIntensity = DefaultIntensity
    /\ devicePixelRatio \in DevicePixelRatios
    /\ clientSize = CanvasLayout(1000)
    /\ now = 0
    /\ rnd = FreshInstance(TRUE)

\* A page with no hover card.
NoCards ==
    /\ cardKind = "JobCard"
    /\ isHovered = FALSE
    /\ particles = <<>>
    /\ spawnTimer = -1
    /\ clearTimers = 0
    /\ cardFrame = FALSE
    /\ cardHovers = 0
    /\ cardMoves = 0

\* A HeartButton after its first render and mount effects: idle, nothing pending.
FreshHeart ==
    /\ pointerOver = FALSE
    /\ heartHovered = FALSE
    /\ heartPhase = "idle"
    /\ heartScale = Num(0)
    /\ heartUpdates = <<>>
    /\ heartLoop = "none"
    /\ heartDeps = <<"idle", FALSE>>

\* Home of the given versions after its first render and its mount effects:
\* loadRoles is under way, no role is selected, no filter is set.
FreshHome(versions) ==
    /\ pageVersion \in versions
    /\ homeMounted = TRUE
    /\ fetchPending = TRUE
    /\ roles = <<>>
    /\ loading = TRUE
    /\ selectedRole = "null"
    /\ isModalOpen = FALSE
    /\ filters = NoFilters
    /\ homeEvent = [op |-> "mount", arg |-> <<>>]
    /\ keydownListeners = 0
    /\ mousedownListeners = 0
    /\ modalHandlers = [added |-> 0, isOpen |-> FALSE]
    /\ bodyOverflow = ""

\* A page with none of the components outside the hero.
NoUi == NoCards /\ FreshHeart /\ FreshHome({"later"})

\* A card of the given kind after its first render and its mount effects:
\* not hovered, so the spawn effect has set one clearing timeout; in a tab
\* that is visible or in the background.
FreshCard(kind) ==
    /\ prefersReducedMotion = FALSE
    /\ ctxAvailable = TRUE
    /\ vsCompiles = TRUE
    /\ fsCompiles = TRUE
    /\ programLinks = TRUE
    /\ tabVisible \in BOOLEAN
    /\ rVariant = "PlasmaOcean"
    /\ propsSupplied = TRUE
    /\ propIsVisible = TRUE
    /\ propIntensity = DefaultIntensity
    /\ devicePixelRatio = Num(1)
    /\ clientSize = DefaultCanvas
    /\ now = 0
    /\ rnd = FreshInstance(TRUE)
    /\ cardKind = kind
    /\ isHovered = FALSE
    /\ particles = <<>>
    /\ spawnTimer = -1
    /\ clearTimers = 1
    /\ cardFrame = FALSE
    /\ cardHovers = 0
    /\ cardMoves = 0

InitSparkles ==
    FreshCard("JobCard") /\ NoScrollHero /\ NoFragment /\ FreshHeart /\ FreshHome({"later"})

InitEmojis ==
    FreshCard("ComparisonCard") /\ NoScrollHero /\ NoFragment /\ FreshHeart /\ FreshHome({"later"})

InitHeart ==
    NoScrollHero /\ NoRenderer /\ NoFragment /\ NoCards /\ FreshHeart /\ FreshHome({"later"})

InitHome ==
    NoScrollHero /\ NoRenderer /\ NoFragment /\ NoCards /\ FreshHeart /\ FreshHome(HomeVersions)

InitScroll == FreshScrollHero /\ NoRenderer /\ NoFragment /\ NoUi

InitRender == FreshRenderer /\ NoScrollHero /\ NoFragment /\ NoUi

Init == FreshScrollHero /\ FreshRenderer /\ NoFragment /\ NoUi

\* The state after the first render of a ScrollHero of either variant and
\* before its effect, in a 1000 x 1000 window at the top of the page.
ScrollHeroAtTop ==
    /\ innerHeight = 1000
    /\ innerWidth = 1000
    /\ winScrollY = 0
    /\ shVariant \in {"state", "direct"}
    /\ shMounted = FALSE
    /\ scrollY = 0
    /\ windowHeight = 1000
    /\ currentHeight = 0
    /\ lastWidth = 0
    /\ shListeners = {}
    /\ shRafPending = FALSE
    /\ view = IF shVariant = "state" THEN Render(0, 1000) ELSE InitialStyles

InitPage == ScrollHeroAtTop /\ FreshRenderer /\ NoFragment /\ NoUi

InitSurface == RendererOnScreen /\ NoScrollHero /\ NoFragment /\ NoUi

InitShader == AnyFragment /\ NoScrollHero /\ NoRenderer /\ NoUi

\* The offsets the page is scrolled to while both frame loops run.
RefreshOffsets == {0, 1200}

\* The state after the first render of a direct-write ScrollHero and before
\* its effect, in a 1000 x 1000 window.
DirectScrollHero ==
    /\ innerHeight = 1000
    /\ innerWidth = 1000
    /\ winScrollY \in RefreshOffsets
    /\ shVariant = "direct"
    /\ shMounted = FALSE
    /\ scrollY = 0
    /\ windowHeight = 1000
    /\ currentHeight = 0
    /\ lastWidth = 0
    /\ shListeners = {}
    /\ shRafPending = FALSE
    /\ view = InitialStyles

InitRefresh == DirectScrollHero /\ RendererOnScreen /\ NoFragment /\ NoUi

\* ------------------------------------------------------------ actions

\* The mount effect of the state-driven variant.
MountState ==
    /\ shVariant = "state" /\ ~shMounted
    /\ shMounted' = TRUE
    /\ windowHeight' = innerHeight
    /\ shListeners' = {"scroll", "resize"}
    /\ scrollY' = winScrollY
    /\ view' = Render(scrollY', windowHeight')
    /\ UNCHANGED <<innerHeight, innerWidth, winScrollY, shVariant, currentHeight,
                   lastWidth, shRafPending,
                   renderVars, surfaceVars, shaderVars, uiVars>>

\* handleScroll of the state-driven variant, on a scroll to offset y.
HandleScrollState(y) ==
    /\ shVariant = "state"
    /\ winScrollY' = y
    /\ IF "scroll" \in shListeners
       THEN /\ scrollY' = y
            /\ view' = Render(scrollY', windowHeight)
       ELSE UNCHANGED <<scrollY, view>>
    /\ UNCHANGED <<innerHeight, innerWidth, shVariant, shMounted, windowHeight,
                   currentHeight, lastWidth, shListeners, shRafPending,
                   renderVars, surfaceVars, shaderVars, uiVars>>

\* handleResize of the state-driven variant, on a resize to w x h.
HandleResizeState(w, h) ==
    /\ shVariant = "state"
    /\ <<w, h>> # <<innerWidth, innerHeight>>
    /\ innerWidth' = w
    /\ innerHeight' = h
    /\ IF "resize" \in shListeners
       THEN /\ windowHeight' = h
            /\ view' = Render(scrollY, windowHeight')
       ELSE UNCHANGED <<windowHeight, view>>
    /\ UNCHANGED <<winScrollY, shVariant, shMounted, scrollY, currentHeight,
                   lastWidth, shListeners, shRafPending,
                   renderVars, surfaceVars, shaderVars, uiVars>>

\* The effect cleanup of the state-driven variant; the instance is discarded.
UnmountState ==
    /\ shVariant = "state" /\ shMounted
    /\ shMounted' = FALSE
    /\ shListeners' = {}
    /\ scrollY' = 0
    /\ windowHeight' = 1000
    /\ view' = Render(0, 1000)
    /\ UNCHANGED <<innerHeight, innerWidth, winScrollY, shVariant, currentHeight,
                   lastWidth, shRafPending,
                   renderVars, surfaceVars, shaderVars, uiVars>>

\* The mount effect of the direct-write variant; it runs loop() once itself.
MountDirect ==
    /\ shVariant = "direct" /\ ~shMounted
    /\ shMounted' = TRUE
    /\ currentHeight' = innerHeight
    /\ windowHeight' = innerHeight
    /\ lastWidth' = innerWidth
    /\ view' = LoopFrame(winScrollY, currentHeight')
    /\ shRafPending' = TRUE
    /\ shListeners' = {"resize"}
    /\ UNCHANGED <<innerHeight, innerWidth, winScrollY, shVariant, scrollY,
                   renderVars, surfaceVars, shaderVars, uiVars>>

\* The frame callback of the direct-write variant.
Loop ==
    /\ shVariant = "direct" /\ shRafPending
    /\ view' = LoopFrame(winScrollY, currentHeight)
    /\ shRafPending' = TRUE
    /\ UNCHANGED <<innerHeight, innerWidth, winScrollY, shVariant, shMounted, scrollY,
                   windowHeight, currentHeight, lastWidth, shListeners,
                   renderVars, surfaceVars, shaderVars, uiVars>>

\* A scroll to offset y; the direct-write variant registers no scroll listener.
ScrollDirect(y) ==
    /\ shVariant = "direct"
    /\ y # winScrollY
    /\ winScrollY' = y
    /\ UNCHANGED <<innerHeight, innerWidth, shVariant, shMounted, scrollY, windowHeight,
                   currentHeight, lastWidth, shListeners, shRafPending, view,
                   renderVars, surfaceVars, shaderVars, uiVars>>

\* handleResize of the direct-write variant, on a resize to w x h.
HandleResizeDirect(w, h) ==
    /\ shVariant = "direct"
    /\ <<w, h>> # <<innerWidth, innerHeight>>
    /\ innerWidth' = w
    /\ innerHeight' = h
    /\ IF "resize" \in shListeners /\ w # lastWidth
       THEN /\ lastWidth' = w
            /\ currentHeight' = h
            /\ windowHeight' = h
       ELSE UNCHANGED <<lastWidth, currentHeight, windowHeight>>
    /\ UNCHANGED <<winScrollY, shVariant, shMounted, scrollY, shListeners,
                   shRafPending, view,
                   renderVars, surfaceVars, shaderVars, uiVars>>

\* The effect cleanup of the direct-write variant; the instance is discarded.
UnmountDirect ==
    /\ shVariant = "direct" /\ shMounted
    /\ shMounted' = FALSE
    /\ shListeners' = {}
    /\ shRafPending' = FALSE
    /\ windowHeight' = 1000
    /\ currentHeight' = 0
    /\ lastWidth' = 0
    /\ view' = InitialStyles
    /\ UNCHANGED <<innerHeight, innerWidth, winScrollY, shVariant, scrollY,
                   renderVars, surfaceVars, shaderVars, uiVars>>

NextScroll ==
    \/ MountState
    \/ \E y \in ScrollOffsets : HandleScrollState(y)
    \/ \E w \in WindowWidths, h \in WindowHeights : HandleResizeState(w, h)
    \/ UnmountState
    \/ MountDirect
    \/ Loop
    \/ \E y \in ScrollOffsets : ScrollDirect(y)
    \/ \E w \in WindowWidths, h \in WindowHeights : HandleResizeDirect(w, h)
    \/ UnmountDirect

\* The effective visibility: the tab is visible and the parent passes isVisible.
EffVisible == tabVisible /\ propIsVisible

\* The renderer mounts: its effect runs for the first time.
MountRenderer ==
    /\ ~rnd.mounted
    /\ rnd.inits < MaxInits
    /\ rnd' = Effect(rVariant, [rnd EXCEPT !.mounted = TRUE], propIsVisible, propIntensity,
                     EffVisible,
                     prefersReducedMotion, ctxAvailable, vsCompiles, fsCompiles, programLinks)
    /\ UNCHANGED <<scrollVars, surfaceVars, shaderVars, uiVars, prefersReducedMotion, ctxAvailable, vsCompiles, fsCompiles,
                   programLinks, tabVisible, rVariant, propIsVisible>>

\* The browser runs a pending frame callback: render(). Browsers run frame
\* callbacks only for a visible document.
Frame ==
    /\ rnd.rafPending > 0
    /\ tabVisible
    /\ rnd.frames < MaxFrames
    /\ rnd' = RenderBody(rVariant,
                         [rnd EXCEPT !.rafPending = @ - 1, !.frames = @ + 1],
                         TRUE, EffVisible)
    /\ UNCHANGED <<scrollVars, surfaceVars, shaderVars, uiVars, prefersReducedMotion, ctxAvailable, vsCompiles, fsCompiles,
                   programLinks, tabVisible, rVariant, propIsVisible>>

\* The tab is hidden or shown: handleVisibilityChange, where it is registered.
VisibilityChange ==
    /\ tabVisible' = ~tabVisible
    /\ rnd' = IF "visibilitychange" \in rnd.listeners
              THEN [rnd EXCEPT !.isVisibleRef = tabVisible']
              ELSE rnd
    /\ UNCHANGED <<scrollVars, surfaceVars, shaderVars, uiVars, prefersReducedMotion, ctxAvailable, vsCompiles, fsCompiles,
                   programLinks, rVariant, propIsVisible>>

\* The parent re-renders the mounted renderer with another isVisible: the
\* effects whose dependencies changed are cleaned up and run again.
SetIsVisible ==
    /\ ChecksVisibility(rVariant)
    /\ rnd.mounted
    /\ EffectDependsOnIsVisible(rVariant) => rnd.inits < MaxInits
    /\ propIsVisible' = ~propIsVisible
    /\ propsSupplied' = TRUE
    /\ rnd' = IF EffectDependsOnIsVisible(rVariant)
              THEN Effect(rVariant, Cleanup(rnd), propIsVisible', propIntensity,
                          tabVisible /\ propIsVisible',
                          prefersReducedMotion, ctxAvailable, vsCompiles, fsCompiles,
                          programLinks)
              ELSE [rnd EXCEPT !.isVisiblePropRef = propIsVisible']
    /\ UNCHANGED <<scrollVars, shaderVars, uiVars, propIntensity, devicePixelRatio, clientSize, now,
                   prefersReducedMotion, ctxAvailable, vsCompiles, fsCompiles,
                   programLinks, tabVisible, rVariant>>

\* The renderer unmounts: the cleanup runs and the instance is discarded. The
\* GPU objects and the call counts are the page's, and stay.
UnmountRenderer ==
    /\ rnd.mounted
    /\ LET c == Cleanup(rnd)
       IN  rnd' = [FreshInstance(propIsVisible) EXCEPT
                     !.rafPending = c.rafPending,
                     !.listeners = c.listeners,
                     !.atRelease = c.atRelease,
                     !.liveShaders = c.liveShaders,
                     !.livePrograms = c.livePrograms,
                     !.liveBuffers = c.liveBuffers,
                     !.drawCalls = c.drawCalls,
                     !.frameRequests = c.frameRequests,
                     !.frames = c.frames,
                     !.inits = c.inits]
    /\ UNCHANGED <<scrollVars, surfaceVars, shaderVars, uiVars, prefersReducedMotion, ctxAvailable, vsCompiles, fsCompiles,
                   programLinks, tabVisible, rVariant, propIsVisible>>

NextRender ==
    \/ MountRenderer
    \/ Frame
    \/ VisibilityChange
    \/ SetIsVisible
    \/ UnmountRenderer

\* The offsets of the pointer events sampled inside a canvas laid out at
\* size: its top-left and its bottom-right pixel.
PointerOffsets(size) == {<<0, 0>>, <<size[1] - 1, size[2] - 1>>}

\* The window is resized to width w, or moved to a screen of pixel ratio dpr,
\* and the canvas is laid out again at size: handleResize, where it is registered.
ResizeRenderer(w, dpr, size) ==
    /\ ~shMounted
    /\ <<w, dpr, size>> # <<innerWidth, devicePixelRatio, clientSize>>
    /\ innerWidth' = w
    /\ devicePixelRatio' = dpr
    /\ clientSize' = size
    /\ rnd' = IF "resize" \in rnd.listeners
              THEN HandleResize(rVariant, rnd, w, dpr, size)
              ELSE rnd
    /\ UNCHANGED <<innerHeight, winScrollY, shVariant, shMounted, scrollY, windowHeight,
                   currentHeight, lastWidth, shListeners, shRafPending, view, shaderVars, uiVars,
                   prefersReducedMotion, ctxAvailable, vsCompiles, fsCompiles, programLinks,
                   tabVisible, rVariant, propIsVisible, propsSupplied, propIntensity, now>>

\* A mousemove or touchmove event ev on the canvas, at offset from its corner.
PointerMove(ev, offset) ==
    /\ ev \in rnd.listeners
    /\ rnd' = HandlePointerMove(rVariant, rnd, devicePixelRatio, offset)
    /\ UNCHANGED <<scrollVars, surfaceVars, shaderVars, uiVars, prefersReducedMotion, ctxAvailable, vsCompiles,
                   fsCompiles, programLinks, tabVisible, rVariant, propIsVisible>>

\* A mouseleave or touchend event ev on the canvas.
PointerLeave(ev) ==
    /\ ev \in rnd.listeners
    /\ rnd' = HandlePointerLeave(rnd)
    /\ UNCHANGED <<scrollVars, surfaceVars, shaderVars, uiVars, prefersReducedMotion, ctxAvailable, vsCompiles,
                   fsCompiles, programLinks, tabVisible, rVariant, propIsVisible>>

\* A click or touchstart event ev on the canvas, at offset from its corner.
Click(ev, offset) ==
    /\ ev \in rnd.listeners
    /\ rnd' = HandleClick(rVariant, rnd, devicePixelRatio, offset, now)
    /\ UNCHANGED <<scrollVars, surfaceVars, shaderVars, uiVars, prefersReducedMotion, ctxAvailable, vsCompiles,
                   fsCompiles, programLinks, tabVisible, rVariant, propIsVisible>>

\* Half a second passes.
Tick ==
    /\ now < MaxClock
    /\ now' = now + 1
    /\ UNCHANGED <<scrollVars, renderVars, shaderVars, uiVars, propsSupplied, propIntensity,
                   devicePixelRatio, clientSize>>

\* A renderer, once mounted, with the events of its window and canvas.
NextSurface ==
    \/ MountRenderer
    \/ Frame
    \/ \E w \in WindowWidths, dpr \in DevicePixelRatios :
            ResizeRenderer(w, dpr, CanvasLayout(w))
    \/ \E ev \in {"mousemove", "touchmove"}, offset \in PointerOffsets(clientSize) :
            PointerMove(ev, offset)
    \/ \E ev \in {"mouseleave", "touchend"} : PointerLeave(ev)
    \/ \E ev \in {"click", "touchstart"}, offset \in PointerOffsets(clientSize) :
            Click(ev, offset)
    \/ Tick

\* A shader renderer on the screen, with pointer, resize and clock events.
SpecSurface == InitSurface /\ [][NextSurface]_vars

\* Every event, prop change and callback of a renderer, with the pointer
\* events at the canvas corner and the screen's pixel ratio fixed.
NextEvents ==
    \/ MountRenderer
    \/ Frame
    \/ VisibilityChange
    \/ SetIsVisible
    \/ UnmountRenderer
    \/ \E w \in WindowWidths : ResizeRenderer(w, devicePixelRatio, CanvasLayout(w))
    \/ \E ev \in {"mousemove", "touchmove"} : PointerMove(ev, <<0, 0>>)
    \/ \E ev \in {"mouseleave", "touchend"} : PointerLeave(ev)
    \/ \E ev \in {"click", "touchstart"} : Click(ev, <<0, 0>>)

\* A shader renderer under every interleaving of its events.
SpecEvents == InitSurface /\ [][NextEvents]_vars

\* main() shades the fragment: the ripple from the click.
ShadeFragment ==
    /\ ~rippleOut.done
    /\ rippleOut' = [done |-> TRUE,
                     value |-> rippleEffect(fragment.uv, fragment.clickPos,
                                            fragment.clickTime, fragment.currentTime)]
    /\ UNCHANGED <<scrollVars, renderVars, surfaceVars, uiVars, fragment>>

\* The next frame: the same fragment half a second later.
NextFrameFragment ==
    /\ rippleOut.done
    /\ RLt(fragment.currentTime, Rat(MaxShaderTicks, 2))
    /\ fragment' = [fragment EXCEPT !.currentTime = RAdd(@, Rat(1, 2))]
    /\ rippleOut' = Unshaded
    /\ UNCHANGED <<scrollVars, renderVars, surfaceVars, uiVars>>

NextShader == ShadeFragment \/ NextFrameFragment

\* The click ripple of the fragment shader, fragment by fragment.
SpecShader == InitShader /\ [][NextShader]_vars

\* The scroll-stage controller alone.
SpecScroll == InitScroll /\ [][NextScroll]_vars

\* A shader renderer alone.
SpecRender == InitRender /\ [][NextRender]_vars

\* Mounting, running and unmounting a controller and a renderer, in a window
\* that is neither scrolled nor resized.
NextPage ==
    \/ NextRender
    \/ MountState
    \/ UnmountState
    \/ MountDirect
    \/ Loop
    \/ UnmountDirect

\* A controller and a renderer through their mount / unmount cycles.
SpecPage == InitPage /\ [][NextPage]_vars

\* The parent re-renders the mounted renderer with the intensity i: the ref
\* effect copies it into intensityRef (PlasmaOceanNeural), or the main effect
\* is cleaned up and run again with it in its closure.
SetIntensity(i) ==
    /\ rnd.mounted
    /\ i # propIntensity
    /\ EffectDependsOnIntensity(rVariant) => rnd.inits < MaxInits
    /\ propIntensity' = i
    /\ propsSupplied' = TRUE
    /\ rnd' = IF EffectDependsOnIntensity(rVariant)
              THEN Effect(rVariant, Cleanup(rnd), propIsVisible, i, EffVisible,
                          prefersReducedMotion, ctxAvailable, vsCompiles, fsCompiles,
                          programLinks)
              ELSE [rnd EXCEPT !.intensitySeen = i]
    /\ UNCHANGED <<scrollVars, shaderVars, uiVars, devicePixelRatio, clientSize, now,
                   prefersReducedMotion, ctxAvailable, vsCompiles, fsCompiles,
                   programLinks, tabVisible, rVariant, propIsVisible>>

\* What the two frame callbacks read and write: the window's scroll offset,
\* the controller's closure and styles, the renderer's refs and GL state.
World ==
    [ scrollY |-> winScrollY, height |-> currentHeight, view |-> view,
      loopPending |-> shRafPending,
      variant |-> rVariant, rnd |-> rnd, effVisible |-> EffVisible ]

\* The controller's frame callback, loop(), run on the world w.
LoopCallback(w) ==
    [w EXCEPT !.view = LoopFrame(w.scrollY, w.height), !.loopPending = TRUE]

\* The renderer's frame callback taking its visibility from the plasma
\* opacity the controller's loop last wrote.
RenderCallback_GatedByLoop(w) ==
    LET seen == RGt(w.view.stylePlasmaOpacity, Rat(1, 10))
    IN  [w EXCEPT !.rnd = RenderBody(w.variant,
                                     [w.rnd EXCEPT !.rafPending = @ - 1, !.frames = @ + 1,
                                                   !.isVisiblePropRef = seen,
                                                   !.closureIsVisible = seen],
                                     TRUE, w.effVisible)]

\* The renderer's frame callback, render(), run on the world w.
RenderCallback(w) ==
    [w EXCEPT !.rnd = RenderBody(w.variant,
                                 [w.rnd EXCEPT !.rafPending = @ - 1, !.frames = @ + 1],
                                 TRUE, w.effVisible)]

\* A display refresh with both loops pending: the browser runs the two frame
\* callbacks, the controller's first or the renderer's first.
Refresh(controllerFirst) ==
    /\ shVariant = "direct" /\ shRafPending
    /\ rnd.rafPending > 0
    /\ tabVisible
    /\ rnd.frames < MaxFrames
    /\ LET w == IF controllerFirst
                THEN RenderCallback(LoopCallback(World))
                ELSE LoopCallback(RenderCallback(World))
       IN  /\ view' = w.view
           /\ shRafPending' = w.loopPending
           /\ rnd' = w.rnd
    /\ UNCHANGED <<innerHeight, innerWidth, winScrollY, shVariant, shMounted, scrollY,
                   windowHeight, currentHeight, lastWidth, shListeners,
                   surfaceVars, shaderVars, uiVars, prefersReducedMotion, ctxAvailable, vsCompiles,
                   fsCompiles, programLinks, tabVisible, rVariant, propIsVisible>>

\* The direct-write controller and a renderer, each with its own frame loop,
\* while the page is scrolled, the pointer moves and clicks, and the parent
\* changes the intensity.
NextRefresh ==
    \/ MountDirect
    \/ MountRenderer
    \/ Loop
    \/ Frame
    \/ \E controllerFirst \in BOOLEAN : Refresh(controllerFirst)
    \/ \E y \in RefreshOffsets : ScrollDirect(y)
    \/ \E ev \in {"mousemove", "touchmove"}, offset \in PointerOffsets(clientSize) :
            PointerMove(ev, offset)
    \/ \E ev \in {"click", "touchstart"} : Click(ev, <<0, 0>>)
    \/ \E i \in Intensities : SetIntensity(i)

\* The two frame loops of the page side by side.
SpecRefresh == InitRefresh /\ [][NextRefresh]_vars

\* The effect on [isHovered, createSparkle] run while hovered: an emoji is
\* created at once (ComparisonCard), and the next timeout is set.
SpawnEffect(delay) ==
    /\ particles' = IF cardKind = "ComparisonCard"
                    THEN CreateParticle(cardKind, particles) ELSE particles
    /\ spawnTimer' = delay
    /\ cardFrame' = (Len(particles') > 0)

\* mouseenter: setIsHovered(true); the spawn effect runs.
MouseEnter(delay) ==
    /\ ~isHovered
    /\ cardHovers < MaxHovers
    /\ isHovered' = TRUE
    /\ cardHovers' = cardHovers + 1
    /\ SpawnEffect(delay)
    /\ UNCHANGED <<scrollVars, renderVars, surfaceVars, shaderVars, heartVars,
                   homeVars, cardKind, clearTimers, cardMoves>>

\* mousemove over the hovered card, to another position: createSparkle /
\* createEmoji changes, so the spawn effect is cleaned up (its timeout
\* cleared) and run again.
MouseMove(delay) ==
    /\ isHovered
    /\ cardMoves < MaxCardMoves
    /\ cardMoves' = cardMoves + 1
    /\ SpawnEffect(delay)
    /\ UNCHANGED <<scrollVars, renderVars, surfaceVars, shaderVars, heartVars,
                   homeVars, cardKind, isHovered, clearTimers, cardHovers>>

\* mouseleave: setIsHovered(false); the timeout is cleared and a clearing
\* timeout is set.
MouseLeave ==
    /\ isHovered
    /\ isHovered' = FALSE
    /\ spawnTimer' = -1
    /\ clearTimers' = clearTimers + 1
    /\ UNCHANGED <<scrollVars, renderVars, surfaceVars, shaderVars, heartVars,
                   homeVars, cardKind, particles, cardFrame, cardHovers, cardMoves>>

\* The spawn timeout fires: a burst of count particles, and the next timeout.
SpawnTimeout(count, delay) ==
    /\ spawnTimer = 0
    /\ particles' = CreateBurst(cardKind, particles, count)
    /\ spawnTimer' = delay
    /\ cardFrame' = (Len(particles') > 0)
    /\ UNCHANGED <<scrollVars, renderVars, surfaceVars, shaderVars, heartVars,
                   homeVars, cardKind, isHovered, clearTimers, cardHovers, cardMoves>>

\* A clearing timeout fires: setSparkles([]) / setEmojis([]).
ClearTimeout ==
    /\ clearTimers > 0
    /\ clearTimers' = clearTimers - 1
    /\ particles' = <<>>
    /\ cardFrame' = FALSE
    /\ UNCHANGED <<scrollVars, renderVars, surfaceVars, shaderVars, heartVars,
                   homeVars, cardKind, isHovered, spawnTimer, cardHovers, cardMoves>>

\* One refresh interval passes: the pending animation frame runs, if the tab
\* is visible, and the spawn timeout comes an interval closer.
CardRefresh ==
    /\ spawnTimer # 0
    /\ spawnTimer' = IF spawnTimer > 0 THEN spawnTimer - 1 ELSE spawnTimer
    /\ IF cardFrame /\ tabVisible
       THEN /\ particles' = AnimateParticles(cardKind, particles)
            /\ cardFrame' = (Len(particles') > 0)
       ELSE UNCHANGED <<particles, cardFrame>>
    /\ UNCHANGED <<scrollVars, renderVars, surfaceVars, shaderVars, heartVars,
                   homeVars, cardKind, isHovered, clearTimers, cardHovers, cardMoves>>

NextCard ==
    \/ \E delay \in SpawnDelays(cardKind) : MouseEnter(delay)
    \/ \E delay \in SpawnDelays(cardKind) : MouseMove(delay)
    \/ MouseLeave
    \/ \E count \in BurstCounts(cardKind), delay \in SpawnDelays(cardKind) :
            SpawnTimeout(count, delay)
    \/ ClearTimeout
    \/ CardRefresh

\* A JobCard under hover, mouse-move, timer and animation-frame events.
SpecSparkles == InitSparkles /\ [][NextCard]_vars

\* A ComparisonCard under hover, mouse-move, timer and animation-frame events.
SpecEmojis == InitEmojis /\ [][NextCard]_vars

\* The rendered state differs from the one the effects last ran with.
HeartEffectsDue == heartDeps # <<heartPhase, heartHovered>>

\* handleMouseEnter: setIsHovered(true), setPhase("grow"), setScale(0).
HeartEnter ==
    /\ ~pointerOver
    /\ Len(heartUpdates) < MaxHeartUpdates
    /\ pointerOver' = TRUE
    /\ heartUpdates' = Append(heartUpdates, Update("enter"))
    /\ UNCHANGED <<scrollVars, renderVars, surfaceVars, shaderVars, cardVars, homeVars,
                   heartHovered, heartPhase, heartScale, heartLoop, heartDeps>>

\* handleMouseLeave: setIsHovered(false), setPhase("shrink").
HeartLeave ==
    /\ pointerOver
    /\ Len(heartUpdates) < MaxHeartUpdates
    /\ pointerOver' = FALSE
    /\ heartUpdates' = Append(heartUpdates, Update("leave"))
    /\ UNCHANGED <<scrollVars, renderVars, surfaceVars, shaderVars, cardVars, homeVars,
                   heartHovered, heartPhase, heartScale, heartLoop, heartDeps>>

\* What setScale(updater) queues: with no update pending React calls the
\* updater at once on the rendered scale (and queues nothing when neither
\* the scale nor the phase would change); with one pending it queues the
\* updater and calls it in the next render.
QueueUpdater(op, result, ph) ==
    IF heartUpdates # <<>> THEN Append(heartUpdates, Update(op))
    ELSE IF result.scale = heartScale /\ (~result.reached \/ ph = heartPhase)
         THEN heartUpdates
         ELSE <<EagerUpdate(result, ph)>>

\* The frame callback animate(), with the phase its closure captured: it
\* runs the set-state calls of its branch and requests the next frame.
HeartFrame ==
    /\ heartLoop # "none"
    /\ Len(heartUpdates) < MaxHeartUpdates
    /\ heartUpdates' =
          CASE heartLoop = "grow" -> QueueUpdater("growStep", GrowUpdater(heartScale), "wobble")
            [] heartLoop = "shrink" -> QueueUpdater("shrinkStep", ShrinkUpdater(heartScale), "idle")
            [] heartLoop = "wobble" -> Append(heartUpdates, Update("rotate"))
    /\ UNCHANGED <<scrollVars, renderVars, surfaceVars, shaderVars, cardVars, homeVars,
                   pointerOver, heartHovered, heartPhase, heartScale, heartLoop, heartDeps>>

\* React renders the component with the queued updates, after the effects
\* of the previous render have run.
HeartRender ==
    /\ heartUpdates # <<>>
    /\ ~HeartEffectsDue
    /\ \E st \in {ProcessUpdates(heartUpdates,
                       [scale |-> heartScale, phase |-> heartPhase, late |-> "none"])} :
           /\ heartScale' = st.scale
           /\ heartPhase' = IF st.late # "none" THEN st.late ELSE st.phase
    /\ heartHovered' = HoveredAfter(heartUpdates, heartHovered)
    /\ heartUpdates' = <<>>
    /\ UNCHANGED <<scrollVars, renderVars, surfaceVars, shaderVars, cardVars, homeVars,
                   pointerOver, heartLoop, heartDeps>>

\* The effects of the last render run: on a changed phase the animation
\* effect cancels its frame request and, unless idle, requests one for the new
\* phase; the second effect stops a wobble the pointer has left.
HeartEffects ==
    /\ HeartEffectsDue
    /\ heartLoop' = IF heartDeps[1] = heartPhase THEN heartLoop
                    ELSE IF heartPhase = "idle" THEN "none" ELSE heartPhase
    /\ heartUpdates' = IF ~heartHovered /\ heartPhase = "wobble"
                       THEN Append(heartUpdates, Update("stopWobble")) ELSE heartUpdates
    /\ heartDeps' = <<heartPhase, heartHovered>>
    /\ UNCHANGED <<scrollVars, renderVars, surfaceVars, shaderVars, cardVars, homeVars,
                   pointerOver, heartHovered, heartPhase, heartScale>>

NextHeart ==
    \/ HeartEnter
    \/ HeartLeave
    \/ HeartFrame
    \/ HeartRender
    \/ HeartEffects

\* A HeartButton under pointer events, frames, renders and effect runs.
SpecHeart == InitHeart /\ [][NextHeart]_vars

\* The same, with frames delivered and renders and effects run eventually.
SpecHeartFair ==
    /\ SpecHeart
    /\ WF_vars(HeartFrame)
    /\ WF_vars(HeartRender)
    /\ WF_vars(HeartEffects)

\* Home has rendered and the effect of JobModal has run again (onClose is a
\* new function on every render): the cleanup of the previous run, then the
\* registrations for the rendered isOpen.
JobModalEffect(open) ==
    LET added == IF open THEN 1 ELSE 0
    IN  /\ keydownListeners' = RemoveEventListener(keydownListeners, modalHandlers.added) + added
        /\ mousedownListeners' =
              RemoveEventListener(mousedownListeners, modalHandlers.added) + added
        /\ modalHandlers' = [added |-> added, isOpen |-> open]
        /\ bodyOverflow' = IF open THEN "hidden" ELSE ""

UnchangedByHome == UNCHANGED <<scrollVars, renderVars, surfaceVars, shaderVars, cardVars, heartVars>>

\* loadRoles settles. On an unmounted page the set-state calls do nothing.
LoadRoles(outcome) ==
    /\ fetchPending
    /\ fetchPending' = FALSE
    /\ IF homeMounted
       THEN /\ roles' = LoadRolesResult(outcome, roles).roles
            /\ loading' = LoadRolesResult(outcome, roles).loading
            /\ homeEvent' = [op |-> "load", arg |-> <<outcome.kind>>]
            /\ JobModalEffect(isModalOpen)
       ELSE UNCHANGED <<roles, loading, homeEvent, keydownListeners, mousedownListeners,
                        modalHandlers, bodyOverflow>>
    /\ UNCHANGED <<pageVersion, homeMounted, selectedRole, isModalOpen, filters>>
    /\ UnchangedByHome

\* The search box or a dropdown is set to a value.
SetFilter(name, value) ==
    /\ homeMounted
    /\ filters' = [filters EXCEPT ![name] = value]
    /\ homeEvent' = [op |-> "filter", arg |-> <<name>>]
    /\ JobModalEffect(isModalOpen)
    /\ UNCHANGED <<pageVersion, homeMounted, fetchPending, roles, loading, selectedRole,
                   isModalOpen>>
    /\ UnchangedByHome

\* handleCategoryClick(team): setTeamFilter(team || ""); team = <<>> is null.
HandleCategoryClick(team) ==
    /\ homeMounted
    /\ filters' = [filters EXCEPT !.team = team]
    /\ homeEvent' = [op |-> "category", arg |-> team]
    /\ JobModalEffect(isModalOpen)
    /\ UNCHANGED <<pageVersion, homeMounted, fetchPending, roles, loading, selectedRole,
                   isModalOpen>>
    /\ UnchangedByHome

ClearFilters ==
    /\ homeMounted
    /\ filters' = NoFilters
    /\ homeEvent' = [op |-> "clear", arg |-> <<>>]
    /\ JobModalEffect(isModalOpen)
    /\ UNCHANGED <<pageVersion, homeMounted, fetchPending, roles, loading, selectedRole,
                   isModalOpen>>
    /\ UnchangedByHome

\* A click on the card of a listed role: handleRoleClick(role).
HandleRoleClick(id) ==
    /\ homeMounted /\ ~loading
    /\ \E i \in DOMAIN filteredRoles : filteredRoles[i] = id
    /\ selectedRole' = id
    /\ isModalOpen' = TRUE
    /\ homeEvent' = [op |-> "roleClick", arg |-> <<id>>]
    /\ JobModalEffect(TRUE)
    /\ UNCHANGED <<pageVersion, homeMounted, fetchPending, roles, loading, filters>>
    /\ UnchangedByHome

\* onClose called by the close button ("closeButton"), by handleEscape
\* ("escape") or by handleClickOutside ("outside").
OnClose(by) ==
    /\ selectedRole' = HandleCloseModal.selectedRole
    /\ isModalOpen' = HandleCloseModal.isModalOpen
    /\ homeEvent' = [op |-> by, arg |-> <<>>]
    /\ JobModalEffect(HandleCloseModal.isModalOpen)
    /\ UNCHANGED <<pageVersion, homeMounted, fetchPending, roles, loading, filters>>
    /\ UnchangedByHome

\* The close button, rendered with the role.
CloseButton == homeMounted /\ selectedRole # "null" /\ OnClose("closeButton")

\* An Escape keydown reaches a registered handleEscape, which tests its isOpen.
EscapeKey == keydownListeners > 0 /\ modalHandlers.isOpen /\ OnClose("escape")

\* A mousedown outside the modal content reaches a registered
\* handleClickOutside; modalRef.current is set while a role is rendered.
MouseDownOutside == mousedownListeners > 0 /\ selectedRole # "null" /\ OnClose("outside")

\* Home unmounts: the cleanup of the JobModal effect runs.
UnmountHome ==
    /\ homeMounted
    /\ homeMounted' = FALSE
    /\ homeEvent' = [op |-> "unmount", arg |-> <<>>]
    /\ keydownListeners' = RemoveEventListener(keydownListeners, modalHandlers.added)
    /\ mousedownListeners' = RemoveEventListener(mousedownListeners, modalHandlers.added)
    /\ modalHandlers' = [added |-> 0, isOpen |-> modalHandlers.isOpen]
    /\ bodyOverflow' = ""
    /\ UNCHANGED <<pageVersion, fetchPending, roles, loading, selectedRole, isModalOpen, filters>>
    /\ UnchangedByHome

NextHome ==
    \/ \E outcome \in FetchOutcomes : LoadRoles(outcome)
    \/ \E name \in DOMAIN FilterValues : \E value \in FilterValues[name] : SetFilter(name, value)
    \/ \E team \in FilterValues.team : HandleCategoryClick(team)
    \/ ClearFilters
    \/ \E id \in DOMAIN Role : HandleRoleClick(id)
    \/ CloseButton
    \/ EscapeKey
    \/ MouseDownOutside
    \/ UnmountHome

\* The page: role loading, the filters and the role modal.
SpecHome == InitHome /\ [][NextHome]_vars

\* The same, with the fetch of the role list settling eventually.
SpecHomeFair == SpecHome /\ WF_vars(\E outcome \in FetchOutcomes : LoadRoles(outcome))

Next == NextScroll \/ NextRender

Spec == Init /\ [][Next]_vars

\* ================================================================ properties

\* The view holds values the component computed (the direct-write variant
\* computes nothing before its effect has run the loop once).
Rendered == shMounted \/ shVariant = "state"

RAbs(a) == <<Abs(a[1]), a[2]>>
Finite(a) == a[2] > 0
InUnit(a) == Finite(a) /\ RLe(Num(0), a) /\ RLe(a, Num(1))
AtLeastOne(a) == Finite(a) /\ RLe(Num(1), a)

\* C1: in both ScrollHero variants, for every scroll offset >= 0 and every
\* positive height, the stage-1 and stage-2 opacities (as computed and as
\* written to the styles) are finite and in [0,1], the stage-1 and stage-2
\* scales are finite and >= 1, and at scrollY = 0 the stage-1 opacity is 1 and
\* the stage-2 opacity is 0.
C1_StageRanges ==
    Rendered =>
        /\ view.scrollY >= 0 /\ view.height > 0
        /\ InUnit(view.stage1Opacity) /\ InUnit(view.styleStage1Opacity)
        /\ InUnit(view.stage2Opacity) /\ InUnit(view.styleStage2Opacity)
        /\ AtLeastOne(view.stage1Scale) /\ AtLeastOne(view.styleStage1Scale)
        /\ AtLeastOne(view.stage2Scale) /\ AtLeastOne(view.styleStage2Scale)
        /\ view.scrollY = 0 =>
              /\ view.stage1Opacity = Num(1) /\ view.styleStage1Opacity = Num(1)
              /\ view.stage2Opacity = Num(0) /\ view.styleStage2Opacity = Num(0)

\* A mounted controller has computed a partially faded stage 1 and stage 2.
C1_Witness ==
    /\ shMounted
    /\ RLt(Num(0), view.stage1Opacity) /\ RLt(view.stage1Opacity, Num(1))
    /\ RLt(Num(0), view.stage2Opacity) /\ RLt(view.stage2Opacity, Num(1))

\* C2 as stated: with windowHeight = 1000, at scrollY = 2200 the stage-2
\* fade-out progress is 0.7, the stage-2 opacity is 0.3, the header line is at
\* 2200 and the header is visible at this offset.
C2_HeaderVisibleAt2200 ==
    (Rendered /\ view.height = 1000 /\ view.scrollY = 2200) =>
        /\ view.stage2FadeOut = Rat(7, 10)
        /\ view.stage2Opacity = Rat(3, 10)
        /\ view.headerThreshold = Num(2200)
        /\ view.showHeader /\ view.styleHeaderOpacity = 1

\* C2 as amended: with windowHeight = 1000, at scrollY = 2200 the stage-2
\* fade-out progress is 0.7, the stage-2 opacity is 0.3, the header line is at
\* 2200, and the header is still hidden at this offset: it is visible exactly
\* at the offsets greater than 2200.
C2_HeaderHiddenAt2200 ==
    /\ (Rendered /\ view.height = 1000 /\ view.scrollY = 2200) =>
          /\ view.stage2FadeOut = Rat(7, 10)
          /\ view.stage2Opacity = Rat(3, 10)
          /\ view.headerThreshold = Num(2200)
          /\ ~view.showHeader /\ view.styleHeaderOpacity = 0
    /\ (Rendered /\ view.height = 1000) =>
          /\ view.showHeader <=> view.scrollY > 2200
          /\ view.styleHeaderOpacity = (IF view.scrollY > 2200 THEN 1 ELSE 0)

\* The state-driven controller, mounted in a 1000-pixel window, at offset 2200.
C2_Witness ==
    shMounted /\ shVariant = "state" /\ view.height = 1000 /\ view.scrollY = 2200

\* C3: with windowHeight = 1000, at scrollY = 500 the stage-1 progress is
\* 0.5, the stage-1 opacity is 0.25, the stage-2 fade-in progress is 0 and the
\* stage-2 opacity is 0.
C3_Scenario500 ==
    (Rendered /\ view.height = 1000 /\ view.scrollY = 500) =>
        /\ view.stage1Progress = Rat(1, 2)
        /\ view.stage1Opacity = Rat(1, 4) /\ view.styleStage1Opacity = Rat(1, 4)
        /\ view.stage2FadeIn = Num(0)
        /\ view.stage2Opacity = Num(0) /\ view.styleStage2Opacity = Num(0)

\* The direct-write controller has run its loop in a 1000-pixel window at offset 500.
C3_Witness ==
    shMounted /\ shVariant = "direct" /\ view.height = 1000 /\ view.scrollY = 500

\* The offset is past the header line 2.5 H - 0.3 H = 2.2 H.
PastHeaderLine(y, h) == 10 * y > 22 * h

\* C4: header visibility is a function of (scrollY, H) alone: it is true
\* exactly when scrollY is past 2.2 H, whatever was shown before; at a fixed H
\* the same offset gives the same boolean, a scroll back to or above the line
\* turns it false, and it changes from false to true exactly on the steps that
\* cross the line downwards.
C4_HeaderPure ==
    /\ [](Rendered =>
            /\ view.showHeader <=> PastHeaderLine(view.scrollY, view.height)
            /\ view.styleHeaderOpacity = (IF view.showHeader THEN 1 ELSE 0)
            /\ view.styleHeaderPointer = (IF view.showHeader THEN "auto" ELSE "none"))
    /\ [][(Rendered /\ Rendered' /\ view'.height = view.height) =>
            /\ view'.scrollY = view.scrollY => view'.showHeader = view.showHeader
            /\ (view.showHeader /\ view'.scrollY >= view.scrollY) => view'.showHeader
            /\ (~view.showHeader /\ view'.scrollY <= view.scrollY) => ~view'.showHeader
            /\ (~view.showHeader /\ view'.showHeader) <=>
                  (/\ ~PastHeaderLine(view.scrollY, view.height)
                   /\ PastHeaderLine(view'.scrollY, view.height))]_vars

\* The direct-write controller shows the header while still inside the hero.
C4_Witness ==
    shMounted /\ shVariant = "direct" /\ view.showHeader /\ view.scrollY < 3 * view.height

\* The height the next recomputation of the stages will use.
HeightInUse == IF shVariant = "state" THEN windowHeight ELSE currentHeight

\* C5 as stated: after any resize, the height used by the next recomputation
\* (hence every boundary derived from it) is the window's new height, with no
\* scroll event needed; also after a resize that changes only the height.
C5_ResizeRecaptures == shMounted => HeightInUse = innerHeight

\* C6: stage-2 opacity is continuous: at scrollY = 1.5 H the fade-in branch
\* and the fade-out branch both give 1, at 0.5 H and at 2.5 H the opacity is 0,
\* and between two offsets d apart (same H) the opacity changes by at most d/H.
C6_Stage2Continuous ==
    /\ [](Rendered =>
            /\ 2 * view.scrollY = 3 * view.height =>
                  /\ view.stage2FadeIn = Num(1)
                  /\ MathMax(Num(0), RSub(Num(1), view.stage2FadeOut)) = Num(1)
                  /\ view.stage2Opacity = Num(1)
            /\ 2 * view.scrollY = view.height => view.stage2Opacity = Num(0)
            /\ 2 * view.scrollY = 5 * view.height => view.stage2Opacity = Num(0))
    /\ [][(Rendered /\ Rendered' /\ view'.height = view.height) =>
            RLe(RMul(RAbs(RSub(view'.stage2Opacity, view.stage2Opacity)), Num(view.height)),
                Num(Abs(view'.scrollY - view.scrollY)))]_vars

\* The state-driven controller sits exactly on the peak boundary 1.5 H.
C6_Witness ==
    shMounted /\ shVariant = "state" /\ 2 * view.scrollY = 3 * view.height

\* C7 as stated: in every renderer variant, when getContext returns null at
\* mount, the component shows its static fallback (it signals unavailable), no
\* draw call is ever issued and no animation frame is ever requested.
C7_NoContextFallback ==
    (rnd.mounted /\ rnd.outcome = "noContext") =>
        /\ FallbackShown(rVariant, rnd)
        /\ rnd.drawCalls = 0
        /\ rnd.frameRequests = 0
        /\ rnd.rafPending = 0

\* C8 as stated, on a platform where WebGL itself works: in every renderer
\* variant, when the platform prefers reduced motion at mount, the component
\* shows its static fallback and starts no animation loop: no context is used,
\* no frame is requested, nothing is drawn.
C8_ReducedMotionFallback ==
    (rnd.mounted /\ prefersReducedMotion
        /\ ctxAvailable /\ vsCompiles /\ fsCompiles /\ programLinks) =>
        /\ FallbackShown(rVariant, rnd)
        /\ ~rnd.glRef
        /\ rnd.drawCalls = 0
        /\ rnd.frameRequests = 0
        /\ rnd.rafPending = 0

\* C9 as stated, for the variants that have a fallback (PlasmaOcean,
\* PlasmaOceanNeural): when a shader fails to compile or the program fails to
\* link, initialisation stops with every GPU object it created released, no
\* listener registered, no frame requested, and the fallback shown.
C9_FailedInitReleases ==
    (HasFallback(rVariant) /\ rnd.mounted
        /\ rnd.outcome \in {"compileFailed", "linkFailed"}) =>
        /\ rnd.liveShaders = 0
        /\ rnd.livePrograms = 0
        /\ rnd.liveBuffers = 0
        /\ rnd.listeners = {}
        /\ rnd.frameRequests = 0
        /\ rnd.rafPending = 0
        /\ FallbackShown(rVariant, rnd)

\* C10 as stated: in PlasmaOcean and PlasmaOceanNeural, a frame callback that
\* runs while the effective visibility (tab visible and isVisible) is false
\* requests exactly one next frame, updates no uniform and draws nothing; a
\* frame callback that runs once it is true again draws; and the change to
\* visible re-initialises nothing (no new context use, the same program).
C10_HiddenFramesOnlyReschedule ==
    /\ []((ChecksVisibility(rVariant) /\ rnd.lastFrame.ran /\ rnd.lastFrame.viaRaf) =>
            IF rnd.lastFrame.effVisible
            THEN rnd.lastFrame.drew /\ rnd.lastFrame.requested = 1
            ELSE /\ rnd.lastFrame.requested = 1
                 /\ ~rnd.lastFrame.uniforms
                 /\ ~rnd.lastFrame.drew)
    /\ [][(ChecksVisibility(rVariant) /\ rnd.mounted /\ rnd'.mounted
            /\ ~EffVisible /\ EffVisible') =>
                /\ rnd'.inits = rnd.inits
                /\ rnd'.programRef = rnd.programRef
                /\ rnd'.listeners = rnd.listeners]_vars

\* C11 as stated: while a renderer stays mounted with its loop running, a
\* change of the isVisible prop or of the tab's visibility only pauses or
\* resumes drawing: the pending frame request is neither cancelled nor
\* replaced, the registered listeners stay, and the program, the shaders and
\* the geometry buffer are neither released nor created again.
C11_VisibilityOnlyPauses ==
    [][(rnd.mounted /\ rnd'.mounted /\ rnd.effectActive
            /\ (propIsVisible' # propIsVisible \/ tabVisible' # tabVisible)) =>
                /\ rnd'.effectActive
                /\ rnd'.rafPending = rnd.rafPending
                /\ rnd'.frameRequests = rnd.frameRequests
                /\ rnd'.listeners = rnd.listeners
                /\ rnd'.programRef = rnd.programRef
                /\ rnd'.livePrograms = rnd.livePrograms
                /\ rnd'.liveShaders = rnd.liveShaders
                /\ rnd'.liveBuffers = rnd.liveBuffers
                /\ rnd'.inits = rnd.inits]_vars

\* C12 as stated, on a platform where initialisation succeeds: after any
\* sequence of mounts, effect re-runs and unmounts, an unmounted renderer has
\* no listener registered, no frame request pending and no GPU object it
\* created (program, shaders, geometry buffer) left unreleased.
C12_TeardownReleasesAll ==
    (~rnd.mounted /\ ~prefersReducedMotion /\ ctxAvailable
        /\ vsCompiles /\ fsCompiles /\ programLinks) =>
            /\ rnd.listeners = {}
            /\ rnd.rafPending = 0
            /\ rnd.livePrograms = 0
            /\ rnd.liveShaders = 0
            /\ rnd.liveBuffers = 0

\* C13: when a renderer's cleanup releases the program, the pending frame
\* request has already been cancelled and every listener removed; an instance
\* whose program is released, or that is unmounted, has no frame request
\* pending and no listener registered, so none of its callbacks can run after
\* the release; an unmounted controller likewise has its frame request
\* cancelled and its listeners removed.
C13_CancelBeforeRelease ==
    /\ rnd.atRelease.done =>
          /\ rnd.atRelease.rafPending = 0
          /\ rnd.atRelease.listeners = {}
    /\ (~rnd.mounted \/ rnd.programRef = "deleted") =>
          /\ rnd.rafPending = 0
          /\ rnd.listeners = {}
    /\ ~shMounted =>
          /\ ~shRafPending
          /\ shListeners = {}

\* A renderer whose loop had run frames has been unmounted and its program
\* released, and a direct-write controller has been mounted and unmounted.
C13_Witness ==
    /\ ~rnd.mounted /\ rnd.atRelease.done /\ rnd.frames > 0 /\ rnd.livePrograms = 0
    /\ ~shMounted /\ shVariant = "direct" /\ view.height = 1000 /\ rnd.inits > 1

SurfaceIs(w, h) ==
    /\ rnd.canvasWidth = w /\ rnd.canvasHeight = h
    /\ rnd.viewport = <<w, h>>

\* The pixel ratio in force: the reported one, capped at the variant's maximum.
CappedRatio == MathMin(devicePixelRatio, ResizeDprCap(rVariant, innerWidth))

\* C15 as stated: after mount and after every resize event, the backing-buffer
\* width and height equal the client size times min(devicePixelRatio, cap), and
\* the GL viewport equals the backing-buffer size.
C15_BufferIsClientTimesRatio ==
    (rnd.mounted /\ rnd.effectActive) =>
        /\ Num(rnd.canvasWidth) = RMul(Num(clientSize[1]), CappedRatio)
        /\ Num(rnd.canvasHeight) = RMul(Num(clientSize[2]), CappedRatio)
        /\ rnd.viewport = <<rnd.canvasWidth, rnd.canvasHeight>>

\* C15 as amended: after mount and after every resize event, the
\* backing-buffer width and height equal the client size times
\* min(devicePixelRatio, cap) with the fraction dropped (cap: PlasmaOceanNeural
\* 1.0 below 768 pixels of window width, else 1.5; PlasmaOcean 1.5;
\* PlasmaBackground and NeuralOceanBackground 2), the GL viewport equals the
\* backing-buffer size, and a reported ratio above the cap never makes the
\* buffer larger than the client size times the cap.
C15_BufferIsCappedAndTruncated ==
    (rnd.mounted /\ rnd.effectActive) =>
        /\ SurfaceIs(ToUnsignedLong(RMul(Num(clientSize[1]), CappedRatio)),
                     ToUnsignedLong(RMul(Num(clientSize[2]), CappedRatio)))
        /\ RLe(CappedRatio, devicePixelRatio)
        /\ CappedRatio = CASE rVariant = "PlasmaOceanNeural" ->
                                IF innerWidth < 768
                                THEN (IF RLe(devicePixelRatio, Num(1)) THEN devicePixelRatio ELSE Num(1))
                                ELSE (IF RLe(devicePixelRatio, Rat(3, 2)) THEN devicePixelRatio ELSE Rat(3, 2))
                           [] rVariant = "PlasmaOcean" ->
                                IF RLe(devicePixelRatio, Rat(3, 2)) THEN devicePixelRatio ELSE Rat(3, 2)
                           [] OTHER ->
                                IF RLe(devicePixelRatio, Num(2)) THEN devicePixelRatio ELSE Num(2)
        /\ RLe(Num(rnd.canvasWidth), RMul(Num(clientSize[1]), ResizeDprCap(rVariant, innerWidth)))
        /\ RLe(Num(rnd.canvasHeight), RMul(Num(clientSize[2]), ResizeDprCap(rVariant, innerWidth)))

\* A running PlasmaOcean on a screen of pixel ratio 3, in a window resized to
\* 500 pixels: its 301 x 151 canvas has a 451 x 226 buffer (301 * 1.5 = 451.5,
\* 151 * 1.5 = 226.5).
C15_Witness ==
    /\ rVariant = "PlasmaOcean" /\ rnd.mounted /\ rnd.effectActive
    /\ devicePixelRatio = Num(3) /\ innerWidth = 500 /\ clientSize = <<301, 151>>
    /\ SurfaceIs(451, 226) /\ rnd.frames > 0

\* The stored position p lies on the canvas backing buffer.
OnSurface(p, r) ==
    /\ RLe(Num(0), p.x) /\ RLe(p.x, Num(r.canvasWidth))
    /\ RLe(Num(0), p.y) /\ RLe(p.y, Num(r.canvasHeight))

\* C16 as stated: in PlasmaOceanNeural, for every window width and pixel
\* ratio, a pointer-move or click event located inside the canvas rectangle
\* stores a position on the backing buffer (0 <= x <= canvas.width and
\* 0 <= y <= canvas.height), and a pointer-move sets pointer-active.
C16_PointerInSurfaceSpace ==
    [][(rVariant = "PlasmaOceanNeural" /\ rnd.mounted /\ rnd'.mounted) =>
            /\ (rnd'.mouse # rnd.mouse /\ rnd'.mouse.active) => OnSurface(rnd'.mouse, rnd')
            /\ (<<rnd'.mouse.x, rnd'.mouse.y>> # <<rnd.mouse.x, rnd.mouse.y>>) => rnd'.mouse.active
            /\ rnd'.click # rnd.click => OnSurface(rnd'.click, rnd')]_vars

\* C17: in the interactive renderers, a pointer-leave (mouseleave / touchend)
\* clears only the pointer-active flag: the stored pointer position, the click
\* position and the click time stay as they were; and every draw sends the
\* stored pointer position with the flag, so after a leave the last position is
\* still the one the shader receives.
C17_LeaveClearsOnlyActive ==
    /\ [][(rnd.mounted /\ rnd'.mounted /\ rnd.mouse.active /\ ~rnd'.mouse.active) =>
            /\ rnd'.mouse.x = rnd.mouse.x
            /\ rnd'.mouse.y = rnd.mouse.y
            /\ rnd'.click = rnd.click]_vars
    /\ [][(rnd'.drawCalls > rnd.drawCalls) =>
            /\ rnd'.sent.mouse = <<rnd'.mouse.x, rnd'.mouse.y>>
            /\ rnd'.sent.mouseActive = rnd'.mouse.active]_vars

\* PlasmaOceanNeural, after a pointer-move, a click and a pointer-leave, has
\* drawn a frame that sent the last pointer position with the flag cleared.
C17_Witness ==
    /\ rVariant = "PlasmaOceanNeural" /\ rnd.mounted
    /\ ~rnd.mouse.active /\ rnd.mouse.x = Num(400) /\ rnd.mouse.y = Num(1)
    /\ rnd.click.time = Rat(1, 2)
    /\ rnd.sent.mouse = <<Num(400), Num(1)>> /\ ~rnd.sent.mouseActive

\* The time since the click of the fragment being shaded.
TimeSinceClick == RSub(fragment.currentTime, fragment.clickTime)

\* C18: the click ripple of PlasmaOceanNeural is never above RIPPLE_STRENGTH
\* and reaches it at time_since_click = 0 (at the clicked position); it is 0
\* for every fragment at every time while no click is recorded (click time
\* -1); and it is 0 for every fragment once time_since_click exceeds 2
\* seconds, the stored click being left as it is.
C18_RippleDecay ==
    rippleOut.done =>
        /\ RLe(Num(0), rippleOut.value) /\ RLe(rippleOut.value, RIPPLE_STRENGTH)
        /\ (fragment.clickTime # Num(-1) /\ TimeSinceClick = Num(0)
                /\ fragment.uv = fragment.clickPos) => rippleOut.value = Rat(2, 5)
        /\ (fragment.clickTime # Num(-1) /\ RGt(TimeSinceClick, Num(0))) =>
                RLt(rippleOut.value, Rat(2, 5))
        /\ fragment.clickTime = Num(-1) => rippleOut.value = Num(0)
        /\ RGt(TimeSinceClick, Num(2)) => rippleOut.value = Num(0)

\* The fragment at the clicked position has been shaded at the time of the
\* click, with the full ripple strength.
C18_Witness ==
    /\ rippleOut.done /\ fragment.clickTime = Num(1) /\ fragment.currentTime = Num(1)
    /\ fragment.uv = fragment.clickPos /\ rippleOut.value = Rat(2, 5)

\* C19 as stated, for the variants that take an isVisible prop (PlasmaOcean,
\* PlasmaOceanNeural): a renderer whose parent has not supplied isVisible and
\* intensity yet is hidden or has zero intensity: a run of its render() either
\* draws nothing or draws with intensity 0.
C19_DefaultsToHidden ==
    (ChecksVisibility(rVariant) /\ ~propsSupplied /\ rnd.mounted /\ rnd.lastFrame.ran) =>
        \/ ~rnd.lastFrame.drew
        \/ rnd.sent.intensity = Num(0)

\* C20: in both ScrollHero variants, for every scroll offset and height, the
\* stage-1 layer accepts pointer events exactly when the stage-1 opacity
\* exceeds 0.3, the stage-2 layer accepts them only when the stage-2 opacity
\* exceeds 0.5 (in the state-driven variant exactly then; the direct-write
\* variant never lets it), and a layer of opacity 0 never accepts them.
C20_InteractivityGate ==
    /\ view.styleStage1Pointer \in {"auto", "none"}
    /\ view.styleStage2Pointer \in {"auto", "none"}
    /\ view.styleStage1Pointer = "auto" <=> RGt(view.stage1Opacity, Rat(3, 10))
    /\ view.styleStage2Pointer = "auto" => RGt(view.stage2Opacity, Rat(1, 2))
    /\ shVariant = "state" =>
          (view.styleStage2Pointer = "auto" <=> RGt(view.stage2Opacity, Rat(1, 2)))
    /\ view.stage1Opacity = Num(0) => view.styleStage1Pointer = "none"
    /\ view.styleStage1Opacity = Num(0) => view.styleStage1Pointer = "none"
    /\ view.stage2Opacity = Num(0) => view.styleStage2Pointer = "none"
    /\ view.styleStage2Opacity = Num(0) => view.styleStage2Pointer = "none"

\* The direct-write controller has run its loop where stage 1 has faded out
\* completely while stage 2 is fully visible.
C20_Witness ==
    /\ shMounted /\ shVariant = "direct"
    /\ view.stage1Opacity = Num(0) /\ view.styleStage1Pointer = "none"
    /\ view.stage2Opacity = Num(1)

\* The integer n is Math.round(x): n - 1/2 <= x < n + 1/2.
RoundsTo(n, x) ==
    /\ RLe(RSub(Num(n), Rat(1, 2)), x)
    /\ RLt(x, RAdd(Num(n), Rat(1, 2)))

\* The channel c is the blend from a to b at progress p, rounded, and lies
\* within [a, b].
Blends(c, a, b, p) ==
    /\ RoundsTo(c, RAdd(Num(a), RMul(Num(b - a), p)))
    /\ a <= c /\ c <= b

\* C21: in both ScrollHero variants, for every scrollY >= 0 and H > 0, the
\* colour progress equals the stage-2 fade-in progress; each channel of the
\* background colour is round(a + (b - a) * progress) for R 15 -> 30,
\* G 17 -> 60, B 21 -> 30 and stays within [a, b]; the colour is exactly
\* (15, 17, 21) for scrollY <= 0.5 H and exactly (30, 60, 30) for
\* scrollY >= 1.5 H.
C21_BackgroundColour ==
    Rendered =>
        /\ view.colorProgress = view.stage2FadeIn
        /\ Blends(view.styleBg[1], 15, 30, view.colorProgress)
        /\ Blends(view.styleBg[2], 17, 60, view.colorProgress)
        /\ Blends(view.styleBg[3], 21, 30, view.colorProgress)
        /\ 2 * view.scrollY <= view.height => view.styleBg = <<15, 17, 21>>
        /\ 2 * view.scrollY >= 3 * view.height => view.styleBg = <<30, 60, 30>>

\* The direct-write controller has run its loop a tenth of the way into the
\* colour transition (offset 600 in a 1000-pixel window), where the red channel
\* 16.5 rounds up to 17.
C21_Witness ==
    /\ shMounted /\ shVariant = "direct"
    /\ view.height = 1000 /\ view.scrollY = 600
    /\ view.colorProgress = Rat(1, 10)
    /\ view.styleBg = <<17, 21, 22>>

\* min(y / h, 1) for integers y >= 0 and h > 0.
RawProgress(y, h) == IF y >= h THEN Num(1) ELSE Rat(y, h)

\* max(0, 1 - 1.5 * p).
EarlyFade(p) ==
    IF RLe(Rat(2, 3), p) THEN Num(0) ELSE RSub(Num(1), RMul(Rat(3, 2), p))

\* C22: in both ScrollHero variants, for fixed H > 0 the stage-1 opacity equals
\* max(0, 1 - 1.5 * min(scrollY / H, 1)) and never increases as scrollY grows;
\* it has finished fading before the raw progress reaches 1: it is 0 for every
\* scrollY >= 2H/3, while the stage-1 scale 1 + 1.5 * min(scrollY / H, 1) keeps
\* growing up to 2.5, its value for every scrollY >= H.
C22_Stage1EarlyFade ==
    /\ [](Rendered =>
            /\ view.stage1Progress = RawProgress(view.scrollY, view.height)
            /\ view.stage1Opacity = EarlyFade(RawProgress(view.scrollY, view.height))
            /\ view.stage1Scale =
                  RAdd(Num(1), RMul(Rat(3, 2), RawProgress(view.scrollY, view.height)))
            /\ 3 * view.scrollY >= 2 * view.height => view.stage1Opacity = Num(0)
            /\ view.scrollY >= view.height => view.stage1Scale = Rat(5, 2)
            /\ view.scrollY < view.height => RLt(view.stage1Scale, Rat(5, 2)))
    /\ [][(Rendered /\ Rendered' /\ view'.height = view.height
                /\ view'.scrollY >= view.scrollY) =>
            /\ RLe(view'.stage1Opacity, view.stage1Opacity)
            /\ RLe(view.stage1Scale, view'.stage1Scale)
            /\ (view'.scrollY > view.scrollY /\ view'.scrollY <= view.height) =>
                  RLt(view.stage1Scale, view'.stage1Scale)]_vars

\* The state-driven controller, between 2H/3 and H: stage 1 has faded out
\* completely while its scale (2.2 at offset 800 of 1000) is still growing.
C22_Witness ==
    /\ shMounted /\ shVariant = "state"
    /\ view.height = 1000 /\ view.scrollY = 800
    /\ view.stage1Opacity = Num(0) /\ view.stage1Scale = Rat(11, 5)

AllAlive == \A i \in 1..Len(particles) : RGt(particles[i].life, Num(0))

\* C24 as stated: after any sequence of hover, mouse-move, timer and
\* animation-frame events a JobCard holds at most 20 sparkles, and every
\* sparkle in the list has life > 0.
C24_AtMost20Sparkles ==
    cardKind = "JobCard" => (Len(particles) <= 20 /\ AllAlive)

\* C25 as stated: after any sequence of hover, mouse-move, timer and
\* animation-frame events a ComparisonCard holds at most 10 emojis, and every
\* emoji in the list has life > 0 and scale >= 0.
C25_AtMost10Emojis ==
    cardKind = "ComparisonCard" =>
        /\ Len(particles) <= 10
        /\ AllAlive
        /\ \A i \in 1..Len(particles) : RLe(Num(0), particles[i].scale)

\* The heart is at rest: idle at scale 0, nothing queued, no effect due and no
\* frame request pending.
HeartAtRest ==
    /\ heartPhase = "idle" /\ heartScale = Num(0)
    /\ heartUpdates = <<>> /\ ~HeartEffectsDue
    /\ heartLoop = "none"

\* C26: in every reachable state of a HeartButton the scale is in [0, 1];
\* once the pointer has left, under every interleaving of frames, renders and
\* effect runs (frames delivered fairly) the heart comes to rest (phase idle,
\* scale 0, no frame request pending) unless the pointer enters again, also
\* when the leave races with the grow -> wobble transition; and a heart at rest
\* stays at rest until the next pointer-enter.
C26_HeartComesToRest ==
    /\ [](InUnit(heartScale))
    /\ (~pointerOver) ~> (HeartAtRest \/ pointerOver)
    /\ [][(HeartAtRest /\ ~pointerOver /\ ~pointerOver') => HeartAtRest']_vars

\* The handlers through which JobModal closes the modal.
CloseEvents == {"closeButton", "escape", "outside"}

RoleSatisfies(id) ==
    LET r == Role[id]
    IN  /\ MatchesSearch(r, filters.search)
        /\ filters.brand # <<>> => r.brand = filters.brand
        /\ filters.team # <<>> =>
              (r.team = filters.team \/ \E i \in DOMAIN r.teams : r.teams[i] = filters.team)
        /\ filters.type # <<>> => r.type = filters.type
        /\ filters.location # <<>> => r.location = filters.location

\* C28: the filtered list is the sub-sequence of the roles, in list order,
\* that satisfy all non-empty filters, the team filter matching the primary
\* team or the additional teams array; with all filters empty, and after
\* clearFilters, it is the full role list; a hero category click sets the team
\* filter to its team (to empty for null) and leaves the other four filters.
C28_FilteredRoles ==
    /\ [](filteredRoles = SelectSeq(roles, RoleSatisfies))
    /\ [](filters = NoFilters => filteredRoles = roles)
    /\ [][homeEvent'.op = "clear" => filteredRoles' = roles']_vars
    /\ [][homeEvent'.op = "category" =>
            filters' = [filters EXCEPT !.team = homeEvent'.arg]]_vars

\* C29: the modal is open only with a role selected; a click on a role card
\* selects that role and opens the modal, the selected role changes on a card
\* click or a close only (it is the most recently clicked one), and every
\* close (close button, Escape, outside click) leaves the modal closed with no
\* role selected.
C29_ModalState ==
    /\ [](isModalOpen => selectedRole # "null")
    /\ [][homeEvent'.op = "roleClick" =>
            (isModalOpen' /\ selectedRole' = homeEvent'.arg[1])]_vars
    /\ [][selectedRole' # selectedRole =>
            homeEvent'.op \in CloseEvents \cup {"roleClick"}]_vars
    /\ [][homeEvent'.op \in CloseEvents => (~isModalOpen' /\ selectedRole' = "null")]_vars

\* Escape has closed the modal of a clicked role.
C29_Witness ==
    /\ homeEvent.op = "escape"
    /\ ~isModalOpen /\ selectedRole = "null" /\ roles # <<>>

\* C30: on the mounted page, after the effects of a render, the body overflow
\* is 'hidden' exactly when the modal is open, and exactly one keydown and one
\* mousedown listener are registered when it is open and none when it is
\* closed; after unmount the overflow is restored and no listener remains;
\* Escape and an outside mousedown call onClose only while the modal is open.
C30_ModalSideEffects ==
    /\ [](homeMounted =>
            /\ bodyOverflow = (IF isModalOpen THEN "hidden" ELSE "")
            /\ keydownListeners = (IF isModalOpen THEN 1 ELSE 0)
            /\ mousedownListeners = (IF isModalOpen THEN 1 ELSE 0))
    /\ [](~homeMounted =>
            bodyOverflow = "" /\ keydownListeners = 0 /\ mousedownListeners = 0)
    /\ [][homeEvent'.op \in {"escape", "outside"} => isModalOpen]_vars

\* The page has rendered again (a filter was set) with the modal open: still
\* one listener of each kind, the body locked.
C30_Witness ==
    /\ homeEvent.op = "filter" /\ homeMounted /\ isModalOpen
    /\ keydownListeners = 1 /\ mousedownListeners = 1 /\ bodyOverflow = "hidden"

====
